---- MODULE Spec2Model ----
(***************************************************************************)
(* A model of the puteron task supervisor (andrewbaxter/slingwit).         *)
(*                                                                         *)
(* Two generations of the planner are in the source tree:                  *)
(*   - puteron/src/demon/run.rs: the whole demon (store, IPC handlers,     *)
(*     planner functions acting inline, and the Long/Short drivers);       *)
(*   - puteron-bin/src/demon/task_plan.rs: the planner rewritten to fill   *)
(*     an ExecutePlan that is dispatched after the traversal.              *)
(* Both are modelled over the same state.  The state predicates of         *)
(* state.rs / task_util.rs (task_on, task_started, ...) are not in the     *)
(* tree and are modelled from their documented meaning.                    *)
(***************************************************************************)
EXTENDS Integers, Sequences, FiniteSets, TLC

VARIABLES
    phase,       \* "boot" | "failed" | "running" | "draining" | "exited"
    tasks,       \* StateDynamic.tasks + task_alloc: task id -> TaskState_
    downstream,  \* StateDynamic.downstream: id -> (id -> DependencyType)
    driver,      \* per task id, the position of its driver future
    stopSent,    \* per task id, the driver's stop_rx is ready
    poisoned,    \* a panic happened while the global mutex was held
    last,        \* what the last handler did and answered
    log          \* the state changes written to stderr, per task id

vars == <<phase, tasks, downstream, driver, stopSent, poisoned, last, log>>

----------------------------------------------------------------------------
(* Bounds of the model                                                     *)

\* failed_start_count is capped here (the code's counter is unbounded)
MaxFailed == 2

\* the length of a task's started_waiters / stopped_waiters list is capped here
MaxWaiters == 1

\* of the state changes logged for a task the last MaxLog are kept
MaxLog == 4

Ids == {"a", "b", "c"}

\* Iteration orders of the HashMaps: every permutation of the ids
Orders == {o \in [1..Cardinality(Ids) -> Ids] : \A i \in Ids : \E k \in DOMAIN o : o[k] = i}

CanonOrd == CHOOSE o \in Orders : TRUE

----------------------------------------------------------------------------
(* Task specs and task state                                               *)

EmptyMap == [x \in {} |-> "Strong"]

\* interface::task::Task, reduced to what the demon's state machine reads
TaskSpec(kind, up, default_on, started_action, scheduled) ==
    [kind |-> kind, upstream |-> up, default_on |-> default_on,
     started_action |-> started_action, scheduled |-> scheduled]

ExternalSpec == TaskSpec("External", EmptyMap, FALSE, "Absent", FALSE)

\* the TaskState_ that build_task allocates
NewTaskState(spec) ==
    [spec |-> spec, user_on |-> FALSE, transitive_on |-> FALSE, started |-> FALSE,
     state |-> "Stopped", stop |-> FALSE, pid |-> FALSE, failed_start_count |-> 0,
     started_waiters |-> 0, stopped_waiters |-> 0]

\* keys of a HashMap in the iteration order ord
Keys(m, ord) == SelectSeq(ord, LAMBDA x : x \in DOMAIN m)

task_on(t) == t.user_on \/ t.transitive_on

task_started(t) ==
    CASE t.spec.kind = "Empty" -> t.started
      [] t.spec.kind \in {"Long", "Short"} -> t.state = "Started"
      [] OTHER -> FALSE

task_stopped(t) ==
    CASE t.spec.kind = "Empty" -> ~t.started
      [] t.spec.kind \in {"Long", "Short"} -> t.state = "Stopped"
      [] OTHER -> TRUE

upstream(t) == IF t.spec.kind = "External" THEN EmptyMap ELSE t.spec.upstream

all_upstream_tasks_started(s, t) ==
    \A u \in DOMAIN upstream(t) : u \in DOMAIN s.tasks /\ task_started(s.tasks[u])

all_downstream_tasks_stopped(s, id) ==
    id \in DOMAIN s.downstream =>
        \A d \in DOMAIN s.downstream[id] :
            d \in DOMAIN s.tasks /\ task_stopped(s.tasks[d])

DownKeys(s, id) == IF id \in DOMAIN s.downstream THEN Keys(s.downstream[id], s.ord) ELSE <<>>

StrongUpKeys(s, t) ==
    SelectSeq(Keys(upstream(t), s.ord), LAMBDA u : upstream(t)[u] = "Strong")

Panic(s) == [s EXCEPT !.panic = TRUE]

SetTask(s, id, field, v) == [s EXCEPT !.tasks[id][field] = v]

MapPut(m, k, v) == [x \in DOMAIN m \cup {k} |-> IF x = k THEN v ELSE m[x]]

MapDel(m, k) == [x \in DOMAIN m \ {k} |-> m[x]]

Last(q) == q[Len(q)]

Front(q) == SubSeq(q, 1, Len(q) - 1)

Ret(s, v) == [s EXCEPT !.ret = v]

\* The "State change" lines of stderr, per task.  They are kept only in
\* behaviours that start with the log switched on.
NoLog == [on |-> FALSE, ev |-> [i \in Ids |-> <<>>]]

LogTail(q) == IF Len(q) > MaxLog THEN SubSeq(q, Len(q) - MaxLog + 1, Len(q)) ELSE q

Log(s, task_id, ev) ==
    IF s.log.on THEN [s EXCEPT !.log.ev[task_id] = LogTail(Append(@, ev))] ELSE s

log_starting(s, task_id) == Log(s, task_id, "starting")

log_started(s, task_id) == Log(s, task_id, "started")

log_stopping(s, task_id) == Log(s, task_id, "stopping")

log_stopped(s, task_id) == Log(s, task_id, "stopped")

on_starting(s, task_id) == log_starting(s, task_id)

----------------------------------------------------------------------------
(* run.rs: the planner functions.  Each takes the locked state s and       *)
(* returns it changed; s.ret is the function's return value, s.panic is    *)
(* set when the code panics (unwrap on None, unreachable!).                *)

RECURSIVE do_start_task(_, _), push_started_loop(_, _), do_stop_task(_, _)
RECURSIVE push_stopped_loop(_, _), on_stopping_loop(_, _)

\* fn push_started: start the on tasks downstream of a started task
push_started(s, from_task_id) == push_started_loop(s, DownKeys(s, from_task_id))

push_started_loop(s, frontier) ==
    IF s.panic \/ frontier = <<>> THEN s
    ELSE LET task_id == Last(frontier)
             rest == Front(frontier)
         IN  IF task_id \notin DOMAIN s.tasks THEN Panic(s)
             ELSE IF ~task_on(s.tasks[task_id]) THEN push_started_loop(s, rest)
             ELSE LET r == do_start_task(s, task_id)
                  IN  IF ~r.ret THEN push_started_loop(r, rest)
                      ELSE push_started_loop(r, rest \o DownKeys(r, task_id))

\* after state changes
on_started(s, task_id) == push_started(log_started(s, task_id), task_id)

\* the Long and Short arms of do_start_task up to the spawn of the driver
SpawnDriver(s, id) ==
    [s EXCEPT !.tasks[id].state = "Starting", !.tasks[id].stop = TRUE,
              !.driver[id] = "spawn", !.stopSent[id] = FALSE]

\* fn do_start_task: true if started - downstream can be started now
do_start_task(s, id) ==
    LET task == s.tasks[id]
    IN  IF s.panic THEN Ret(s, FALSE)
        ELSE IF ~all_upstream_tasks_started(s, task) THEN Ret(s, FALSE)
        ELSE IF task_started(task) THEN Ret(s, TRUE)
        ELSE CASE task.spec.kind = "Empty" ->
                    Ret(on_started(SetTask(on_starting(s, id), id, "started", TRUE), id), TRUE)
               [] task.spec.kind \in {"Long", "Short"} ->
                    IF task.state # "Stopped" THEN Ret(s, FALSE)
                    ELSE Ret(SpawnDriver(s, id), FALSE)
               [] OTHER -> Panic(Ret(s, FALSE))

\* fn push_stopped: stop the off tasks upstream of a stopped task
push_stopped(s, task_id) ==
    IF s.panic THEN s
    ELSE IF task_id \notin DOMAIN s.tasks THEN Panic(s)
    ELSE push_stopped_loop(s, StrongUpKeys(s, s.tasks[task_id]))

push_stopped_loop(s, frontier) ==
    IF s.panic \/ frontier = <<>> THEN s
    ELSE LET task_id == Last(frontier)
             rest == Front(frontier)
         IN  IF task_id \notin DOMAIN s.tasks THEN push_stopped_loop(s, rest)
             ELSE IF task_on(s.tasks[task_id]) THEN push_stopped_loop(s, rest)
             ELSE LET r == do_stop_task(s, task_id)
                  IN  IF ~r.ret THEN push_stopped_loop(r, rest)
                      ELSE push_stopped_loop(r, rest \o StrongUpKeys(r, r.tasks[task_id]))

on_stopped(s, task_id) == push_stopped(log_stopped(s, task_id), task_id)

\* SignalStop publishing Stopped at once instead of Stopping
SignalStop_stopped_at_once(s, id) ==
    IF s.tasks[id].stop
    THEN [s EXCEPT !.tasks[id].stop = FALSE, !.tasks[id].state = "Stopped",
                   !.stopSent[id] = (s.driver[id] # "idle")]
    ELSE s

\* SignalStop sending and publishing Stopping whether or not the stop sender
\* is still there
SignalStop_resend(s, id) ==
    [s EXCEPT !.tasks[id].stop = FALSE, !.tasks[id].state = "Stopping",
              !.stopSent[id] = (s.driver[id] # "idle")]

\* the Long and Short arms of do_stop_task: take the stop sender and use it
SignalStop(s, id) ==
    IF s.tasks[id].stop
    THEN [s EXCEPT !.tasks[id].stop = FALSE, !.tasks[id].state = "Stopping",
                   !.stopSent[id] = (s.driver[id] # "idle")]
    ELSE s

\* fn do_stop_task: true if task is finished stopping
do_stop_task(s, id) ==
    LET task == s.tasks[id]
    IN  IF s.panic THEN Ret(s, FALSE)
        ELSE IF ~all_downstream_tasks_stopped(s, id) THEN Ret(s, FALSE)
        ELSE IF task_stopped(task) THEN Ret(s, TRUE)
        ELSE CASE task.spec.kind = "Empty" ->
                    Ret(on_stopped(SetTask(log_stopping(s, id), id, "started", FALSE), id), TRUE)
               [] task.spec.kind \in {"Long", "Short"} -> Ret(SignalStop(s, id), FALSE)
               [] OTHER -> Panic(Ret(s, FALSE))

\* fn on_stopping: stop all downstream immediately
on_stopping(s, task_id) == on_stopping_loop(log_stopping(s, task_id), DownKeys(s, task_id))

on_stopping_loop(s, frontier) ==
    IF s.panic \/ frontier = <<>> THEN s
    ELSE LET task_id == Last(frontier)
             rest == Front(frontier)
         IN  IF task_id \notin DOMAIN s.tasks THEN Panic(s)
             ELSE IF task_started(s.tasks[task_id])
                  THEN LET r == do_stop_task(s, task_id)
                       IN  on_stopping_loop(r, rest \o DownKeys(r, task_id))
                  ELSE on_stopping_loop(s, rest)

RECURSIVE propagate_loop(_, _), transitive_off_loop(_, _), stop_weak_loop(_, _, _)

StrongUpFirst(s, t) == [i \in 1..Len(StrongUpKeys(s, t)) |-> <<TRUE, StrongUpKeys(s, t)[i]>>]

\* fn propagate_task_transitive_on: two-pass walk over the strong upstream
propagate_task_transitive_on(s, root_task_id) == propagate_loop(s, <<<<TRUE, root_task_id>>>>)

propagate_loop(s, frontier) ==
    IF s.panic \/ frontier = <<>> THEN s
    ELSE LET first == Last(frontier)[1]
             task_id == Last(frontier)[2]
             rest == Front(frontier)
         IN  IF first
             THEN IF task_id \notin DOMAIN s.tasks THEN propagate_loop(s, rest)
                  ELSE LET task == s.tasks[task_id]
                           s1 == SetTask(s, task_id, "transitive_on", TRUE)
                       IN  IF task_on(task) THEN propagate_loop(s1, rest)
                           ELSE propagate_loop(s1,
                                    (rest \o <<<<FALSE, task_id>>>>) \o StrongUpFirst(s1, task))
             ELSE IF task_id \notin DOMAIN s.tasks THEN Panic(s)
                  ELSE IF all_upstream_tasks_started(s, s.tasks[task_id])
                       THEN propagate_loop(do_start_task(s, task_id), rest)
                       ELSE propagate_loop(s, rest)

RECURSIVE PropagateEach(_, _)
\* the loop of set_task_user_on over the root's strong dependencies
PropagateEach(s, deps) ==
    IF deps = <<>> THEN s
    ELSE PropagateEach(propagate_task_transitive_on(s, Head(deps)), Tail(deps))

\* fn set_task_user_on
set_task_user_on(s, root_task_id) ==
    IF s.panic THEN s
    ELSE IF root_task_id \notin DOMAIN s.tasks THEN Panic(s)
    ELSE LET task == s.tasks[root_task_id]
             s1 == SetTask(s, root_task_id, "user_on", TRUE)
         IN  IF task_on(task) THEN s1
             ELSE push_started(PropagateEach(s1, StrongUpKeys(s1, task)), root_task_id)

\* set_task_user_off, first loop: unset transitive_on for strong upstream deps
transitive_off_loop(s, frontier) ==
    IF s.panic \/ frontier = <<>> THEN s
    ELSE LET upstream_id == Last(frontier)
             rest == Front(frontier)
         IN  IF upstream_id \notin DOMAIN s.tasks THEN transitive_off_loop(s, rest)
             ELSE IF ~task_on(s.tasks[upstream_id]) THEN transitive_off_loop(s, rest)
             ELSE LET down == IF upstream_id \in DOMAIN s.downstream
                              THEN s.downstream[upstream_id] ELSE EmptyMap
                      strong == {d \in DOMAIN down : down[d] = "Strong"}
                  IN  IF \E d \in strong : d \notin DOMAIN s.tasks THEN Panic(s)
                      ELSE IF \E d \in strong : task_on(s.tasks[d])
                           THEN transitive_off_loop(s, rest)
                           ELSE LET s1 == SetTask(s, upstream_id, "transitive_on", FALSE)
                                IN  transitive_off_loop(s1,
                                        rest \o StrongUpKeys(s1, s1.tasks[upstream_id]))

WeakDownFirst(s, id) ==
    LET ks == SelectSeq(DownKeys(s, id), LAMBDA d : s.downstream[id][d] = "Weak")
    IN  [i \in 1..Len(ks) |-> <<TRUE, ks[i]>>]

\* set_task_user_off, second loop: stop weak downstream tasks from the leaves
\* to the task; s.ret is the value left for `stopped`
stop_weak_loop(s, frontier, stack) ==
    IF s.panic THEN Ret(s, FALSE)
    ELSE IF frontier = <<>> THEN Ret(s, Last(stack))
    ELSE LET first_pass == Last(frontier)[1]
             task_id == Last(frontier)[2]
             rest == Front(frontier)
         IN  IF task_id \notin DOMAIN s.tasks THEN Panic(Ret(s, FALSE))
             ELSE IF first_pass
             THEN IF ~task_started(s.tasks[task_id]) THEN stop_weak_loop(s, rest, stack)
                  ELSE stop_weak_loop(s,
                           (rest \o <<<<FALSE, task_id>>>>) \o WeakDownFirst(s, task_id),
                           Append(stack, TRUE))
             ELSE LET all_downstream_stopped == Last(stack)
                      parents == Front(stack)
                      r == IF all_downstream_stopped THEN do_stop_task(s, task_id)
                           ELSE Ret(s, FALSE)
                  IN  IF parents = <<>> THEN Panic(Ret(r, FALSE))
                      ELSE stop_weak_loop(r, rest,
                               IF r.ret THEN parents
                               ELSE [parents EXCEPT ![Len(parents)] = FALSE])

\* fn set_task_user_off
set_task_user_off(s, task_id) ==
    IF s.panic THEN Ret(s, FALSE)
    ELSE IF task_id \notin DOMAIN s.tasks THEN Panic(Ret(s, FALSE))
    ELSE LET task == s.tasks[task_id]
             s1 == SetTask(s, task_id, "user_on", FALSE)
         IN  IF ~task_on(task) THEN Ret(s, task_stopped(task))
             ELSE IF task.transitive_on THEN Ret(s1, FALSE)
             ELSE LET s2 == transitive_off_loop(s1, StrongUpKeys(s1, task))
                      s3 == stop_weak_loop(s2, <<<<TRUE, task_id>>>>, <<TRUE>>)
                  IN  IF s3.ret THEN Ret(push_stopped(s3, task_id), TRUE) ELSE s3

----------------------------------------------------------------------------
(* task_plan.rs: the planner that fills an ExecutePlan.  s.plan holds the  *)
(* start and stop sets of the plan; the log sets are not modelled.  This   *)
(* generation has no External kind.                                        *)

NoPlan == [start |-> {}, stop |-> {}]

get_task(s, id) == s.tasks[id]

Missing(s, id) == id \notin DOMAIN s.tasks

RECURSIVE plan_start_one_task(_, _), plan_stop_one_task(_, _)
RECURSIVE start_downstream_loop(_, _), stop_upstream_loop(_, _), event_stopping_loop(_, _)

\* propagate_start_downstream with the walk left out
propagate_start_downstream_skipped(s, from_task_id) == s

\* fn propagate_start_downstream
propagate_start_downstream(s, from_task_id) ==
    IF s.panic THEN s
    ELSE IF Missing(s, from_task_id) THEN Panic(s)
    ELSE start_downstream_loop(s, DownKeys(s, from_task_id))

start_downstream_loop(s, frontier) ==
    IF s.panic \/ frontier = <<>> THEN s
    ELSE LET downstream_id == Last(frontier)
             rest == Front(frontier)
         IN  IF Missing(s, downstream_id) THEN Panic(s)
             ELSE IF ~task_on(get_task(s, downstream_id)) THEN start_downstream_loop(s, rest)
             ELSE LET r == plan_start_one_task(s, downstream_id)
                  IN  IF ~r.ret THEN start_downstream_loop(r, rest)
                      ELSE start_downstream_loop(r, rest \o DownKeys(r, downstream_id))

\* fn plan_event_started
plan_event_started(s, task_id) == propagate_start_downstream(s, task_id)

\* plan_start_one_task without the check of the upstream tasks
plan_start_one_task_ungated(s, id) ==
    LET task == get_task(s, id)
    IN  IF s.panic THEN Ret(s, FALSE)
        ELSE IF task_started(task) THEN Ret(s, TRUE)
        ELSE IF task.spec.kind = "Empty"
             THEN Ret(plan_event_started(SetTask(s, id, "started", TRUE), id), TRUE)
             ELSE IF task.state # "Stopped" THEN Ret(s, FALSE)
                  ELSE Ret([s EXCEPT !.plan.start = @ \cup {id}], FALSE)

\* fn plan_start_one_task
plan_start_one_task(s, id) ==
    LET task == get_task(s, id)
    IN  IF s.panic THEN Ret(s, FALSE)
        ELSE IF ~all_upstream_tasks_started(s, task) THEN Ret(s, FALSE)
        ELSE IF task_started(task) THEN Ret(s, TRUE)
        ELSE IF task.spec.kind = "Empty"
             THEN Ret(plan_event_started(SetTask(s, id, "started", TRUE), id), TRUE)
             ELSE IF task.state # "Stopped" THEN Ret(s, FALSE)
                  ELSE Ret([s EXCEPT !.plan.start = @ \cup {id}], FALSE)

AllUpKeys(s, t) == Keys(upstream(t), s.ord)

\* fn propagate_stop_upstream
propagate_stop_upstream(s, task_id) ==
    IF s.panic THEN s
    ELSE IF Missing(s, task_id) THEN Panic(s)
    ELSE stop_upstream_loop(s, AllUpKeys(s, get_task(s, task_id)))

stop_upstream_loop(s, frontier) ==
    IF s.panic \/ frontier = <<>> THEN s
    ELSE LET upstream_id == Last(frontier)
             rest == Front(frontier)
         IN  IF Missing(s, upstream_id) THEN Panic(s)
             ELSE IF task_on(get_task(s, upstream_id)) THEN stop_upstream_loop(s, rest)
             ELSE LET r == plan_stop_one_task(s, upstream_id)
                  IN  IF ~r.ret THEN stop_upstream_loop(r, rest)
                      ELSE stop_upstream_loop(r, rest \o AllUpKeys(r, get_task(r, upstream_id)))

\* fn plan_event_stopped
plan_event_stopped(s, task_id) == propagate_stop_upstream(s, task_id)

\* fn plan_event_stopping: stop all downstream immediately
plan_event_stopping(s, task_id) ==
    IF s.panic THEN s
    ELSE IF Missing(s, task_id) THEN Panic(s)
    ELSE event_stopping_loop(s, DownKeys(s, task_id))

event_stopping_loop(s, frontier) ==
    IF s.panic \/ frontier = <<>> THEN s
    ELSE LET id == Last(frontier)
             rest == Front(frontier)
         IN  IF Missing(s, id) THEN Panic(s)
             ELSE LET r == plan_stop_one_task(s, id)
                  IN  event_stopping_loop(r, rest \o DownKeys(r, id))

\* plan_stop_one_task without the check of the downstream tasks
plan_stop_one_task_ungated(s, id) ==
    LET task == get_task(s, id)
    IN  IF s.panic THEN Ret(s, FALSE)
        ELSE IF task_stopped(task) THEN Ret(s, TRUE)
        ELSE CASE task.spec.kind = "Empty" ->
                    LET s1 == plan_event_stopping(s, id)
                        s2 == SetTask(s1, id, "started", FALSE)
                    IN  Ret(plan_event_stopped(s2, id), TRUE)
               [] task.spec.kind = "Long" -> Ret([s EXCEPT !.plan.stop = @ \cup {id}], FALSE)
               [] OTHER ->
                    IF task.state = "Started"
                    THEN Ret(SetTask(s, id, "state", "Stopped"), FALSE)
                    ELSE Ret([s EXCEPT !.plan.stop = @ \cup {id}], FALSE)

\* fn plan_stop_one_task
plan_stop_one_task(s, id) ==
    LET task == get_task(s, id)
    IN  IF s.panic THEN Ret(s, FALSE)
        ELSE IF ~all_downstream_tasks_stopped(s, id) THEN Ret(s, FALSE)
        ELSE IF task_stopped(task) THEN Ret(s, TRUE)
        ELSE CASE task.spec.kind = "Empty" ->
                    LET s1 == plan_event_stopping(s, id)
                        s2 == SetTask(s1, id, "started", FALSE)
                    IN  Ret(plan_event_stopped(s2, id), TRUE)
               [] task.spec.kind = "Long" -> Ret([s EXCEPT !.plan.stop = @ \cup {id}], FALSE)
               [] OTHER ->
                    IF task.state = "Started"
                    THEN Ret(SetTask(s, id, "state", "Stopped"), FALSE)
                    ELSE Ret([s EXCEPT !.plan.stop = @ \cup {id}], FALSE)

RECURSIVE direct_on_loop(_, _), plan_transitive_off_loop(_, _), direct_off_loop(_, _)

\* plan_set_task_direct_on: set transitive_on for strong deps, start leaves
direct_on_loop(s, frontier) ==
    IF s.panic \/ frontier = <<>> THEN s
    ELSE LET first == Last(frontier)[1]
             upstream_id == Last(frontier)[2]
             rest == Front(frontier)
         IN  IF Missing(s, upstream_id) THEN Panic(s)
             ELSE IF first
             THEN LET upstream_task == get_task(s, upstream_id)
                      s1 == SetTask(s, upstream_id, "transitive_on", TRUE)
                  IN  IF task_on(upstream_task) THEN direct_on_loop(s1, rest)
                      ELSE direct_on_loop(s1, (rest \o <<<<FALSE, upstream_id>>>>)
                                                  \o StrongUpFirst(s1, upstream_task))
             ELSE IF all_upstream_tasks_started(s, get_task(s, upstream_id))
                  THEN direct_on_loop(plan_start_one_task(s, upstream_id), rest)
                  ELSE direct_on_loop(s, rest)

\* plan_set_task_direct_on with the Weak upstream of the root pushed to the
\* frontier like the Strong ones
plan_set_task_direct_on_weak_too(s, root_task_id) ==
    IF s.panic THEN s
    ELSE IF Missing(s, root_task_id) THEN Panic(s)
    ELSE LET task == get_task(s, root_task_id)
             s1 == SetTask(s, root_task_id, "user_on", TRUE)
             all == AllUpKeys(s1, task)
             s2 == direct_on_loop(s1, [i \in 1..Len(all) |-> <<TRUE, all[i]>>])
             s3 == plan_start_one_task(s2, root_task_id)
         IN  IF task_on(task) THEN s1
             ELSE IF s2.panic \/ ~all_upstream_tasks_started(s2, get_task(s2, root_task_id)) THEN s2
             ELSE IF ~s3.ret THEN s3
             ELSE propagate_start_downstream(s3, root_task_id)

\* fn plan_set_task_direct_on
plan_set_task_direct_on(s, root_task_id) ==
    IF s.panic THEN s
    ELSE IF Missing(s, root_task_id) THEN Panic(s)
    ELSE LET task == get_task(s, root_task_id)
             s1 == SetTask(s, root_task_id, "user_on", TRUE)
             s2 == direct_on_loop(s1, StrongUpFirst(s1, task))
             s3 == plan_start_one_task(s2, root_task_id)
         IN  IF task_on(task) THEN s1
             ELSE IF s2.panic \/ ~all_upstream_tasks_started(s2, get_task(s2, root_task_id)) THEN s2
             ELSE IF ~s3.ret THEN s3
             ELSE propagate_start_downstream(s3, root_task_id)

\* fn propagate_transitive_off
propagate_transitive_off(s, task_id) ==
    IF s.panic THEN s
    ELSE IF Missing(s, task_id) THEN Panic(s)
    ELSE plan_transitive_off_loop(s, StrongUpKeys(s, get_task(s, task_id)))

plan_transitive_off_loop(s, frontier) ==
    IF s.panic \/ frontier = <<>> THEN s
    ELSE LET upstream_id == Last(frontier)
             rest == Front(frontier)
         IN  IF Missing(s, upstream_id) THEN Panic(s)
             ELSE IF ~task_on(get_task(s, upstream_id)) THEN plan_transitive_off_loop(s, rest)
             ELSE LET down == IF upstream_id \in DOMAIN s.downstream
                              THEN s.downstream[upstream_id] ELSE EmptyMap
                      strong == {d \in DOMAIN down : down[d] = "Strong"}
                  IN  IF \E d \in strong : Missing(s, d) THEN Panic(s)
                      ELSE IF \E d \in strong : task_on(get_task(s, d))
                           THEN plan_transitive_off_loop(s, rest)
                           ELSE LET s1 == SetTask(s, upstream_id, "transitive_on", FALSE)
                                IN  plan_transitive_off_loop(s1,
                                        rest \o StrongUpKeys(s1, get_task(s1, upstream_id)))

DownFirst(s, id) ==
    LET ks == DownKeys(s, id)
    IN  [i \in 1..Len(ks) |-> <<TRUE, ks[i], s.downstream[id][ks[i]]>>]

\* plan_set_task_direct_off: stop weak downstream tasks from leaves to the task
direct_off_loop(s, frontier) ==
    IF s.panic \/ frontier = <<>> THEN s
    ELSE LET first_pass == Last(frontier)[1]
             downstream_id == Last(frontier)[2]
             downstream_type == Last(frontier)[3]
             rest == Front(frontier)
         IN  IF Missing(s, downstream_id) THEN Panic(s)
             ELSE IF first_pass
             THEN IF downstream_type = "Strong" /\ task_on(get_task(s, downstream_id))
                  THEN direct_off_loop(s, rest)
                  ELSE direct_off_loop(s,
                           (rest \o <<<<FALSE, downstream_id, downstream_type>>>>)
                               \o DownFirst(s, downstream_id))
             ELSE direct_off_loop(plan_stop_one_task(s, downstream_id), rest)

\* fn plan_set_task_direct_off
plan_set_task_direct_off(s, task_id) ==
    IF s.panic THEN s
    ELSE IF Missing(s, task_id) THEN Panic(s)
    ELSE LET task == get_task(s, task_id)
             s1 == SetTask(s, task_id, "user_on", FALSE)
             s2 == propagate_transitive_off(s1, task_id)
             s3 == direct_off_loop(s2, DownFirst(s2, task_id))
             s4 == plan_stop_one_task(s3, task_id)
         IN  IF task.transitive_on THEN s1
             ELSE IF s4.ret THEN propagate_stop_upstream(s4, task_id)
             ELSE s4

----------------------------------------------------------------------------
(* run.rs: the task store                                                  *)

RECURSIVE find_cycles_loop(_, _, _, _)

UpFirst(s, id) ==
    LET ks == IF id \in DOMAIN s.tasks THEN Keys(upstream(s.tasks[id]), s.ord) ELSE <<>>
    IN  [i \in 1..Len(ks) |-> <<TRUE, ks[i]>>]

\* fn task_find_cycles: [cycle |-> the cycle found or <<>>, cycle_free |-> ...]
task_find_cycles(s, cycle_free, task_id) ==
    find_cycles_loop(s, <<<<TRUE, task_id>>>>, <<>>, cycle_free)

find_cycles_loop(s, frontier, path, cycle_free) ==
    IF frontier = <<>> THEN [cycle |-> <<>>, cycle_free |-> cycle_free]
    ELSE LET first == Last(frontier)[1]
             task_id == Last(frontier)[2]
             rest == Front(frontier)
         IN  IF ~first
             THEN find_cycles_loop(s, rest, Front(path), cycle_free \cup {task_id})
             ELSE IF task_id \in cycle_free
             THEN find_cycles_loop(s, rest, path, cycle_free)
             ELSE IF \E i \in DOMAIN path : path[i] = task_id
             THEN LET offset == CHOOSE i \in DOMAIN path :
                                    path[i] = task_id /\ \A j \in 1..(i - 1) : path[j] # task_id
                  IN  [cycle |-> Append(SubSeq(path, offset, Len(path)), task_id),
                       cycle_free |-> cycle_free]
             ELSE find_cycles_loop(s, (rest \o <<<<FALSE, task_id>>>>) \o UpFirst(s, task_id),
                                   Append(path, task_id), cycle_free)

RECURSIVE PruneDownstream_keeps_empty(_, _, _)
\* PruneDownstream without the removal of the index entries left empty
PruneDownstream_keeps_empty(s, task_id, ups) ==
    IF s.panic \/ ups = <<>> THEN s
    ELSE LET upstream_id == Head(ups)
         IN  IF upstream_id \notin DOMAIN s.downstream THEN Panic(s)
             ELSE PruneDownstream_keeps_empty(
                      [s EXCEPT !.downstream[upstream_id] = MapDel(@, task_id)],
                      task_id, Tail(ups))

RECURSIVE PruneDownstream(_, _, _)
\* delete_task: remove the task's entries from the reverse index
PruneDownstream(s, task_id, ups) ==
    IF s.panic \/ ups = <<>> THEN s
    ELSE LET upstream_id == Head(ups)
         IN  IF upstream_id \notin DOMAIN s.downstream THEN Panic(s)
             ELSE LET d == MapDel(s.downstream[upstream_id], task_id)
                      s1 == IF DOMAIN d = {}
                            THEN [s EXCEPT !.downstream = MapDel(s.downstream, upstream_id)]
                            ELSE [s EXCEPT !.downstream[upstream_id] = d]
                  IN  PruneDownstream(s1, task_id, Tail(ups))

\* fn delete_task
delete_task(s, task_id) ==
    IF s.panic THEN s
    ELSE IF task_id \notin DOMAIN s.tasks THEN Panic(s)
    ELSE LET task == s.tasks[task_id]
         IN  PruneDownstream([s EXCEPT !.tasks = MapDel(s.tasks, task_id)],
                             task_id, Keys(upstream(task), s.ord))

RECURSIVE MirrorUpstream(_, _, _, _)
\* build_task: mirror the spec's upstream edges into the reverse index
MirrorUpstream(down, task_id, up, ks) ==
    IF ks = <<>> THEN down
    ELSE LET u == Head(ks)
             old == IF u \in DOMAIN down THEN down[u] ELSE EmptyMap
         IN  MirrorUpstream(MapPut(down, u, MapPut(old, task_id, up[u])), task_id, up, Tail(ks))

\* fn build_task
build_task(s, task_id, spec) ==
    LET up == IF spec.kind = "External" THEN EmptyMap ELSE spec.upstream
    IN  [s EXCEPT !.downstream = MirrorUpstream(s.downstream, task_id, up, Keys(up, s.ord)),
                  !.tasks = MapPut(s.tasks, task_id, NewTaskState(spec))]

----------------------------------------------------------------------------
(* run.rs: the operations.  Every handler runs with the global mutex held, *)
(* so each is one atomic step; a panic under the lock poisons the mutex    *)
(* and every later lock().unwrap() fails.                                  *)

Locked(ord) ==
    [tasks |-> tasks, downstream |-> downstream, driver |-> driver, stopSent |-> stopSent,
     panic |-> FALSE, ret |-> FALSE, ord |-> ord, plan |-> NoPlan, log |-> log]

Commit(s) ==
    /\ tasks' = s.tasks
    /\ downstream' = s.downstream
    /\ driver' = s.driver
    /\ stopSent' = s.stopSent
    /\ poisoned' = s.panic
    /\ log' = s.log

RECURSIVE DispatchStart(_, _), DispatchStop(_, _)

DispatchStart(s, ids) ==
    IF ids = <<>> THEN s ELSE DispatchStart(SpawnDriver(s, Head(ids)), Tail(ids))

DispatchStop(s, ids) ==
    IF ids = <<>> THEN s
    ELSE LET id == Head(ids)
             s1 == IF s.tasks[id].stop
                   THEN [s EXCEPT !.tasks[id].stop = FALSE,
                                  !.stopSent[id] = (s.driver[id] # "idle")]
                   ELSE s
         IN  DispatchStop(s1, Tail(ids))

SeqOf(set, ord) == SelectSeq(ord, LAMBDA x : x \in set)

\* The dispatch of an ExecutePlan before the lock is released: every id of the
\* start set gets a driver (state Starting), every id of the stop set has its
\* driver signalled through the one-shot stop channel.
Execute(s) ==
    IF s.panic THEN s
    ELSE [DispatchStop(DispatchStart(s, SeqOf(s.plan.start, s.ord)), SeqOf(s.plan.stop, s.ord))
            EXCEPT !.plan = NoPlan]

\* The two generations of the planner behind one driver: v = "run" calls the
\* functions of run.rs, v = "plan" fills and dispatches an ExecutePlan.
OnStarted(v, s, id) ==
    IF v = "plan" THEN Execute(plan_event_started(s, id)) ELSE on_started(s, id)

OnStopping(v, s, id) ==
    IF v = "plan" THEN Execute(plan_event_stopping(s, id)) ELSE on_stopping(s, id)

OnStopped(v, s, id) ==
    IF v = "plan" THEN Execute(plan_event_stopped(s, id)) ELSE on_stopped(s, id)

SetUserOn(v, s, id) ==
    IF v = "plan" THEN Execute(plan_set_task_direct_on(s, id)) ELSE set_task_user_on(s, id)

SetUserOff(v, s, id) ==
    IF v = "plan" THEN Execute(plan_set_task_direct_off(s, id)) ELSE set_task_user_off(s, id)

\* The record of the last step (request, arguments, answer).  It is kept only
\* in behaviours that start with a record: where Init leaves it off it stays off.
NoRecord == [op |-> "off", id |-> "-", arg |-> FALSE, res |-> "-"]

Did(op, id, arg, res) ==
    IF last = NoRecord THEN NoRecord ELSE [op |-> op, id |-> id, arg |-> arg, res |-> res]

RECURSIVE BuildAll(_, _, _), BootCycle(_, _, _), TurnOnDefaults(_, _)

BuildAll(s, specs, ids) ==
    IF ids = <<>> THEN s
    ELSE BuildAll(build_task(s, Head(ids), specs[Head(ids)]), specs, Tail(ids))

\* main, "Check for cycles": only the leaves of the graph are walked
BootCycle(s, ids, cycle_free) ==
    IF ids = <<>> THEN FALSE
    ELSE IF Head(ids) \in DOMAIN s.downstream THEN BootCycle(s, Tail(ids), cycle_free)
    ELSE LET r == task_find_cycles(s, cycle_free, Head(ids))
         IN  r.cycle # <<>> \/ BootCycle(s, Tail(ids), r.cycle_free)

\* main, "Start default-on tasks"
TurnOnDefaults(s, ids) ==
    IF ids = <<>> THEN s
    ELSE LET task == s.tasks[Head(ids)]
             user_on == task.spec.kind # "External" /\ task.spec.default_on
         IN  TurnOnDefaults(IF user_on THEN set_task_user_on(s, Head(ids)) ELSE s, Tail(ids))

\* fn main up to the event loop, for the parsed task specs `specs`
Startup(specs, ord) ==
    /\ phase = "boot"
    /\ LET s1 == BuildAll(Locked(ord), specs, Keys(specs, ord))
       IN  IF BootCycle(s1, Keys(s1.tasks, ord), {})
           THEN /\ phase' = "failed"
                /\ Commit(s1)
                /\ last' = Did("main", "-", FALSE, "Task cycle detected")
           ELSE /\ phase' = "running"
                /\ Commit(TurnOnDefaults(s1, Keys(s1.tasks, ord)))
                /\ last' = Did("main", "-", FALSE, "Ok")

\* TaskAdd, "Turn on maybe": some strong downstream of the new task is on
AddTransitiveOn(s, id) ==
    /\ id \in DOMAIN s.downstream
    /\ \E d \in DOMAIN s.downstream[id] :
           s.downstream[id][d] = "Strong" /\ d \in DOMAIN s.tasks /\ task_on(s.tasks[d])

\* TaskAdd from the cycle check on
TaskAddNew(s, id, spec) ==
    IF task_find_cycles(s, {}, id).cycle # <<>> THEN Ret(s, "Task cycle detected")
    ELSE LET user_on == spec.kind # "External" /\ spec.default_on
             s1 == build_task(s, id, spec)
         IN  Ret(IF user_on THEN set_task_user_on(s1, id)
                 ELSE IF AddTransitiveOn(s1, id)
                      THEN push_started(propagate_task_transitive_on(s1, id), id)
                      ELSE s1,
                 "Ok")

\* handle_ipc, Request::TaskAdd
HandleTaskAdd(s, id, spec, unique) ==
    IF id \in DOMAIN s.tasks
    THEN IF ~unique THEN Ret(s, "A task with this ID already exists")
         ELSE IF ~task_stopped(s.tasks[id]) THEN Ret(s, "Task isn't stopped yet")
         ELSE IF spec = s.tasks[id].spec THEN Ret(s, "Ok")
         ELSE TaskAddNew(delete_task(s, id), id, spec)
    ELSE TaskAddNew(s, id, spec)

TaskAdd(id, spec, unique, ord) ==
    /\ phase = "running" /\ ~poisoned
    /\ LET s == HandleTaskAdd(Locked(ord), id, spec, unique)
       IN  Commit(s) /\ last' = Did("TaskAdd", id, unique, IF s.panic THEN "panic" ELSE s.ret)
    /\ UNCHANGED phase

\* HandleTaskDelete without the check that the task is stopped
HandleTaskDelete_unchecked(s, id) ==
    IF id \notin DOMAIN s.tasks THEN Ret(s, "Ok") ELSE Ret(delete_task(s, id), "Ok")

\* handle_ipc, Request::TaskDelete
HandleTaskDelete(s, id) ==
    IF id \notin DOMAIN s.tasks THEN Ret(s, "Ok")
    ELSE IF ~task_stopped(s.tasks[id]) THEN Ret(s, "Task isn't stopped yet")
    ELSE Ret(delete_task(s, id), "Ok")

TaskDelete(id, ord) ==
    /\ phase = "running" /\ ~poisoned
    /\ LET s == HandleTaskDelete(Locked(ord), id)
       IN  Commit(s) /\ last' = Did("TaskDelete", id, FALSE, IF s.panic THEN "panic" ELSE s.ret)
    /\ UNCHANGED phase

\* handle_ipc, Request::TaskOn
HandleTaskOn(v, s, id, on) ==
    IF on THEN SetUserOn(v, s, id) ELSE SetUserOff(v, s, id)

TaskOn(v, id, on, ord) ==
    /\ phase = "running" /\ ~poisoned
    /\ LET s == HandleTaskOn(v, Locked(ord), id, on)
       IN  Commit(s) /\ last' = Did("TaskOn", id, on, IF s.panic THEN "panic" ELSE "Ok")
    /\ UNCHANGED phase

----------------------------------------------------------------------------
(* run.rs: the drivers spawned by do_start_task.  driver[id] is the        *)
(* future's position:                                                      *)
(*   "idle"   no driver                                                    *)
(*   "spawn"  at the top of the loop, before spawn_proc                    *)
(*   "live"   child spawned; Long: started check pending, Short: waiting   *)
(*            for the exit                                                 *)
(*   "run"    Long, Started published, sleeping forever                    *)
(*   "term"   in gentle_stop_proc                                          *)
(*   "delay"  in the restart delay                                         *)
(* Each step below is one acquisition of the mutex by the driver.          *)

\* the driver's view of its task: unwrap + let-else panic!()
DriverTaskOk(s, id, kind) == id \in DOMAIN s.tasks /\ s.tasks[id].spec.kind = kind

DriverKind(id) == IF id \in DOMAIN tasks THEN tasks[id].spec.kind ELSE "Gone"

DriverStep(id, s, pc, res) ==
    /\ Commit([s EXCEPT !.driver[id] = pc])
    /\ last' = Did("driver", id, FALSE, res)
    /\ UNCHANGED phase

Running == phase \in {"running", "draining"} /\ ~poisoned

\* the top of the loop (on_starting), then spawn_proc succeeded: record the pid
DriverSpawned(v, id, ord) ==
    /\ Running /\ driver[id] = "spawn"
    /\ LET s == on_starting(Locked(ord), id)
       IN  IF DriverTaskOk(s, id, DriverKind(id))
           THEN DriverStep(id, SetTask(s, id, "pid", TRUE), "live", "spawned")
           ELSE DriverStep(id, Panic(s), "idle", "panic")

\* spawn_proc failed: `?` leaves the async block, the loop goes to the delay
DriverSpawnFailed(v, id, ord) ==
    /\ Running /\ driver[id] = "spawn"
    /\ DriverStep(id, on_starting(Locked(ord), id), "delay", "spawn failed")

\* Long: the started check passed
LongStarted(v, id, ord) ==
    /\ Running /\ driver[id] = "live" /\ DriverKind(id) = "Long"
    /\ LET s == Locked(ord)
           s1 == [s EXCEPT !.tasks[id].state = "Started", !.tasks[id].failed_start_count = 0]
       IN  DriverStep(id, OnStarted(v, s1, id), "run", "started")

\* Long and Short: stop_rx fired while the child is alive
DriverStopping(v, id, ord) ==
    /\ Running /\ driver[id] \in {"live", "run"} /\ stopSent[id]
    /\ LET s == [Locked(ord) EXCEPT !.stopSent[id] = FALSE]
       IN  IF DriverTaskOk(s, id, DriverKind(id))
           THEN DriverStep(id, OnStopping(v, SetTask(s, id, "state", "Stopping"), id),
                           "term", "stopping")
           ELSE DriverStep(id, Panic(s), "idle", "panic")

\* Short, stop branch: `if let Some(started_action)` ... Delete
ShortDeleteOnStop(s, id) ==
    IF s.panic \/ id \notin DOMAIN s.tasks THEN s
    ELSE IF s.tasks[id].spec.kind = "Short" /\ s.tasks[id].spec.started_action = "Delete"
         THEN delete_task(s, id)
         ELSE s

\* Long and Short: gentle_stop_proc returned
DriverStopped(v, id, ord) ==
    /\ Running /\ driver[id] = "term"
    /\ LET s == Locked(ord)
       IN  IF DriverTaskOk(s, id, DriverKind(id))
           THEN LET s1 == [s EXCEPT !.tasks[id].state = "Stopped", !.tasks[id].pid = FALSE]
                IN  DriverStep(id, ShortDeleteOnStop(OnStopped(v, s1, id), id), "idle", "stopped")
           ELSE DriverStep(id, Panic(s), "idle", "panic")

\* LongChildExit without the publication of Starting
LongChildExit_unpublished(v, id, ord) ==
    /\ Running /\ driver[id] \in {"live", "run"} /\ DriverKind(id) = "Long"
    /\ DriverStep(id, OnStopping(v, Locked(ord), id), "delay", "exited")

\* Long: child.wait() returned
LongChildExit(v, id, ord) ==
    /\ Running /\ driver[id] \in {"live", "run"} /\ DriverKind(id) = "Long"
    /\ LET s == OnStopping(v, Locked(ord), id)
       IN  DriverStep(id, SetTask(s, id, "state", "Starting"), "delay", "exited")

\* Short: what the success exit does after publishing Started
ShortStartedAction(spec) ==
    IF spec.started_action = "Absent"
    THEN IF spec.scheduled THEN "TurnOff" ELSE "None"
    ELSE spec.started_action

\* ShortSucceeded logging, for TurnOff and Delete, only the started event
ShortSucceeded_started_only(v, id, ord) ==
    /\ Running /\ driver[id] = "live" /\ DriverKind(id) = "Short"
    /\ LET s == Locked(ord)
           s1 == [s EXCEPT !.tasks[id].failed_start_count = 0, !.tasks[id].state = "Started"]
       IN  DriverStep(id,
                      IF ShortStartedAction(tasks[id].spec) = "None" THEN OnStarted(v, s1, id)
                      ELSE SetUserOff(v, log_started(s1, id), id),
                      "idle", "succeeded")

\* Short: the child exited with a success code
ShortSucceeded(v, id, ord) ==
    /\ Running /\ driver[id] = "live" /\ DriverKind(id) = "Short"
    /\ LET s == Locked(ord)
           s1 == [s EXCEPT !.tasks[id].failed_start_count = 0, !.tasks[id].state = "Started"]
       IN  DriverStep(id,
                      IF ShortStartedAction(tasks[id].spec) = "None" THEN OnStarted(v, s1, id)
                      ELSE SetUserOff(v, log_stopped(log_stopping(log_started(s1, id), id), id), id),
                      "idle", "succeeded")

\* Short: the child exited with another code
ShortFailed(v, id, ord) ==
    /\ Running /\ driver[id] = "live" /\ DriverKind(id) = "Short"
    /\ tasks[id].failed_start_count < MaxFailed
    /\ LET s == OnStopping(v, Locked(ord), id)
           s1 == [s EXCEPT !.tasks[id].state = "Starting",
                           !.tasks[id].failed_start_count = @ + 1]
       IN  DriverStep(id, on_starting(s1, id), "delay", "failed")

\* the restart delay elapsed: back to the top of the loop
DelayElapsed(v, id, ord) ==
    /\ Running /\ driver[id] = "delay"
    /\ DriverStep(id, Locked(ord), "spawn", "retry")

\* stop_rx fired during the restart delay: the driver leaves the loop
DelayStopped(v, id, ord) ==
    /\ Running /\ driver[id] = "delay" /\ stopSent[id]
    /\ DriverStep(id, [Locked(ord) EXCEPT !.stopSent[id] = FALSE], "idle", "left")

----------------------------------------------------------------------------
(* run.rs: shutdown                                                        *)

RECURSIVE OffAll(_, _, _)
OffAll(v, s, ids) ==
    IF ids = <<>> THEN s ELSE OffAll(v, SetUserOff(v, s, Head(ids)), Tail(ids))

\* main: sigint / sigterm -> task_off_all, leave the loop
Signal(v, ord) ==
    /\ phase = "running" /\ ~poisoned
    /\ phase' = "draining"
    /\ Commit(OffAll(v, Locked(ord), Keys(tasks, ord)))
    /\ last' = Did("signal", "-", FALSE, "Ok")

\* the drivers spawned on state.tokio_tasks (the Long ones)
Tracked(id) == driver[id] # "idle" /\ DriverKind(id) = "Long"

\* main: tokio_tasks.wait() returned
Exit ==
    /\ phase = "draining" /\ ~poisoned
    /\ \A id \in Ids : ~Tracked(id)
    /\ phase' = "exited"
    /\ last' = Did("exit", "-", FALSE, "Ok")
    /\ UNCHANGED <<tasks, downstream, driver, stopSent, poisoned, log>>

----------------------------------------------------------------------------
(* Specifications                                                          *)

NoTasks == [x \in {} |-> NewTaskState(ExternalSpec)]

NoDownstream == [x \in {} |-> EmptyMap]

Boot(record) ==
    /\ phase = "boot"
    /\ tasks = NoTasks
    /\ downstream = NoDownstream
    /\ driver = [i \in Ids |-> "idle"]
    /\ stopSent = [i \in Ids |-> FALSE]
    /\ poisoned = FALSE
    /\ last = record
    /\ log = NoLog

\* The traversals depend on the iteration order only where some map holds two
\* keys; elsewhere one order stands for all.
Branching ==
    \/ \E t \in DOMAIN tasks : Cardinality(DOMAIN upstream(tasks[t])) > 1
    \/ \E u \in DOMAIN downstream : Cardinality(DOMAIN downstream[u]) > 1

OrdersNow == IF Branching THEN Orders ELSE {CanonOrd}

DepTypes == {"Strong", "Weak"}

\* a task spec that is off by default and has no started_action or schedule
Plain(kind, up) == TaskSpec(kind, up, FALSE, "Absent", FALSE)

\* the steps of the driver of task id
DriverSteps(v, id) ==
    \/ DriverSpawned(v, id, CanonOrd)
    \/ DriverSpawnFailed(v, id, CanonOrd)
    \/ \E ord \in OrdersNow : LongStarted(v, id, ord)
    \/ \E ord \in OrdersNow : DriverStopping(v, id, ord)
    \/ \E ord \in OrdersNow : DriverStopped(v, id, ord)
    \/ \E ord \in OrdersNow : LongChildExit(v, id, ord)
    \/ \E ord \in OrdersNow : ShortSucceeded(v, id, ord)
    \/ \E ord \in OrdersNow : ShortFailed(v, id, ord)
    \/ DelayElapsed(v, id, CanonOrd)
    \/ DelayStopped(v, id, CanonOrd)

\* Stores of three tasks of one kind in a chain a <- b <- c (b upstream of a,
\* c upstream of b), every edge Strong or Weak
ChainStore(kind, x, y) ==
    [i \in Ids |-> CASE i = "a" -> Plain(kind, "b" :> x)
                     [] i = "b" -> Plain(kind, "c" :> y)
                     [] OTHER -> Plain(kind, EmptyMap)]

ChainStores ==
    {ChainStore(kind, x, y) : kind \in {"Empty", "Long", "Short"}, x \in DepTypes, y \in DepTypes}

\* The life of a fixed store under run.rs: requests, drivers, shutdown
Init == Boot(NoRecord)

Next ==
    \/ \E specs \in ChainStores, ord \in Orders : Startup(specs, ord)
    \/ \E id \in Ids, on \in BOOLEAN, ord \in OrdersNow : TaskOn("run", id, on, ord)
    \/ \E id \in Ids : DriverSteps("run", id)
    \/ \E ord \in Orders : Signal("run", ord)
    \/ Exit

Spec == Init /\ [][Next]_vars

\* The same stores under the planner of task_plan.rs
PlanNext ==
    \/ \E specs \in ChainStores, ord \in Orders : Startup(specs, ord)
    \/ \E id \in Ids, on \in BOOLEAN, ord \in OrdersNow : TaskOn("plan", id, on, ord)
    \/ \E id \in Ids : DriverSteps("plan", id)

PlanSpec == Init /\ [][PlanNext]_vars

----------------------------------------------------------------------------
(* The store under TaskAdd, TaskDelete and TaskOn requests (run.rs)        *)

\* the specs a client may add under id: Empty tasks with at most one upstream
\* (another id, in the store or not), on by default or not, and External
UpMaps(id) == {EmptyMap} \cup {u :> ty : u \in Ids \ {id}, ty \in DepTypes}

Catalogue(id) ==
    {TaskSpec("Empty", up, on, "Absent", FALSE) : up \in UpMaps(id), on \in BOOLEAN}
        \cup {ExternalSpec}

NoSpecs == [x \in {} |-> ExternalSpec]

Booted == [op |-> "boot", id |-> "-", arg |-> FALSE, res |-> "-"]

\* t has u as an upstream of the given type, both in the store ts
UpEdge(ts, t, u, types) ==
    /\ t \in DOMAIN ts /\ u \in DOMAIN ts
    /\ u \in DOMAIN upstream(ts[t]) /\ upstream(ts[t])[u] \in types

\* the upstream edges among the tasks of the store ts close a cycle
HasCycle(ts) ==
    \E n \in 1..Cardinality(Ids) : \E p \in [1..n -> DOMAIN ts] :
        /\ \A i \in 1..(n - 1) : UpEdge(ts, p[i], p[i + 1], DepTypes)
        /\ UpEdge(ts, p[n], p[1], DepTypes)

\* the ids the client adds and deletes; the third id stays a dead link
StoreIds == {"a", "b"}

StoreInit == Boot(Booted)

\* TaskOn is followed only while the store is acyclic: push_stopped does not
\* return from a walk over a cycle of stopped tasks
StoreNext ==
    \/ Startup(NoSpecs, CanonOrd)
    \/ \E id \in StoreIds, unique \in BOOLEAN, ord \in OrdersNow :
           \E spec \in Catalogue(id) : TaskAdd(id, spec, unique, ord)
    \/ \E id \in StoreIds, ord \in OrdersNow : TaskDelete(id, ord)
    \/ \E id \in Ids, on \in BOOLEAN, ord \in OrdersNow :
           ~HasCycle(tasks) /\ TaskOn("run", id, on, ord)

StoreSpec == StoreInit /\ [][StoreNext]_vars

----------------------------------------------------------------------------
(* Startup over arbitrary sets of initial task specs (run.rs, main)        *)

\* upstream maps of Strong edges to any set of other ids
StrongMaps(id) == {[u \in us |-> "Strong"] : us \in SUBSET (Ids \ {id})}

\* the parsed task specs: three Empty tasks, each on by default or not
BootStores ==
    {[i \in Ids |-> TaskSpec("Empty", up[i], on[i], "Absent", FALSE)] :
        up \in {f \in [Ids -> UNION {StrongMaps(i) : i \in Ids}] : \A i \in Ids : f[i] \in StrongMaps(i)},
        on \in [Ids -> BOOLEAN]}

BootNext == \E specs \in BootStores, ord \in Orders : Startup(specs, ord)

BootSpec == StoreInit /\ [][BootNext]_vars

----------------------------------------------------------------------------
(* A client that waits for its requests to settle, and children that       *)
(* spawn, reach readiness and stop when asked                              *)

\* every task that is on is started
SettledUp == \A t \in DOMAIN tasks : task_on(tasks[t]) => task_started(tasks[t])

\* every task that is off is stopped
SettledDown == \A t \in DOMAIN tasks : ~task_on(tasks[t]) => task_stopped(tasks[t])

ClientOn(v, id, ord) == SettledDown /\ TaskOn(v, id, TRUE, ord)

ClientOff(v, id, ord) == SettledUp /\ TaskOn(v, id, FALSE, ord)

ReadySteps(v, id) ==
    \/ DriverSpawned(v, id, CanonOrd)
    \/ \E ord \in OrdersNow : LongStarted(v, id, ord)
    \/ \E ord \in OrdersNow : ShortSucceeded(v, id, ord)
    \/ \E ord \in OrdersNow : DriverStopping(v, id, ord)
    \/ \E ord \in OrdersNow : DriverStopped(v, id, ord)

Kinds == {"Empty", "Long", "Short"}

\* chains a <- b <- c of any three kinds, every edge Strong or Weak
MixedStore(ka, kb, kc, x, y) ==
    [i \in Ids |-> CASE i = "a" -> Plain(ka, "b" :> x)
                     [] i = "b" -> Plain(kb, "c" :> y)
                     [] OTHER -> Plain(kc, EmptyMap)]

MixedStores ==
    {MixedStore(ka, kb, kc, x, y) : ka \in Kinds, kb \in Kinds, kc \in Kinds,
                                    x \in DepTypes, y \in DepTypes}

ScriptNext(v) ==
    \/ \E specs \in MixedStores : Startup(specs, CanonOrd)
    \/ \E id \in Ids, ord \in OrdersNow : ClientOn(v, id, ord)
    \/ \E id \in Ids, ord \in OrdersNow : ClientOff(v, id, ord)
    \/ \E id \in Ids : ReadySteps(v, id)

\* ENABLED <<ReadySteps(v, id)>>_vars in closed form: the driver of id is at a
\* position it leaves by one of the steps of ReadySteps
DriverReady(id) ==
    /\ Running
    /\ \/ driver[id] \in {"spawn", "term"}
       \/ driver[id] = "live" /\ DriverKind(id) \in {"Long", "Short"}
       \/ driver[id] \in {"live", "run"} /\ stopSent[id]

\* The tokio runtime polls every spawned driver, and the children are assumed
\* to spawn, report readiness and exit on the stop signal: weak fairness of
\* every driver's steps.  For the steps that run the planner WF_vars is
\* written out with DriverReady for the ENABLED predicate.
DriversFair(v) ==
    \A id \in Ids :
        /\ WF_vars(DriverSpawned(v, id, CanonOrd))
        /\ ([]<>(~DriverReady(id)) \/ []<><<ReadySteps(v, id)>>_vars)

PlanScriptNext == ScriptNext("plan")

PlanScript == Init /\ [][PlanScriptNext]_vars /\ DriversFair("plan")

RunScriptNext == ScriptNext("run")

RunScript == Init /\ [][RunScriptNext]_vars /\ DriversFair("run")

----------------------------------------------------------------------------
(* Properties                                                              *)

Started(id) == id \in DOMAIN tasks /\ task_started(tasks[id])

Stopped(id) == id \in DOMAIN tasks /\ task_stopped(tasks[id])

On(id) == id \in DOMAIN tasks /\ task_on(tasks[id])

AllUpStarted(ts, t) == all_upstream_tasks_started([tasks |-> ts], ts[t])

\* what a start makes of a task: an Empty task is started, a Long or Short
\* task has left Stopped
Begun(ts, t) ==
    IF ts[t].spec.kind = "Empty" THEN ts[t].started ELSE ts[t].state \in {"Starting", "Started"}

\* the store holds the chain a <- b <- c of Strong edges
ChainStrong == UpEdge(tasks, "a", "b", {"Strong"}) /\ UpEdge(tasks, "b", "c", {"Strong"})

AllStarted == \A i \in Ids : Started(i)

AllStopped == \A i \in Ids : Stopped(i)

AllOff == \A i \in Ids : i \in DOMAIN tasks /\ ~On(i)

\* C1: after every operation, every task that is started has every one of its
\* strong-upstream tasks started.
C1_StartedTaskHasStrongUpstreamStarted ==
    \A t \in DOMAIN tasks :
        task_started(tasks[t]) =>
            \A u \in DOMAIN upstream(tasks[t]) :
                upstream(tasks[t])[u] = "Strong" => Started(u)

\* C2: a TaskOn(t, true) request on a task that is off and stopped and whose
\* upstream tasks are all started (a task with no upstream included) starts t
\* (Empty: started when the request returns; Long, Short: Starting), and
\* afterwards every downstream that is on and has all upstream started is
\* started too.
C2_TaskOnStartsReadyTask ==
    [][\A t \in DOMAIN tasks :
          ( /\ phase = "running"
            /\ ~task_on(tasks[t]) /\ task_stopped(tasks[t]) /\ AllUpStarted(tasks, t)
            /\ t \in DOMAIN tasks' /\ tasks'[t].user_on )
          => /\ IF tasks'[t].spec.kind = "Empty" THEN tasks'[t].started
                ELSE tasks'[t].state = "Starting"
             /\ \A d \in DOMAIN tasks' :
                    ( /\ t \in DOMAIN upstream(tasks'[d])
                      /\ task_on(tasks'[d]) /\ AllUpStarted(tasks', d) )
                    => Begun(tasks', d)]_vars

\* in the store ts every Strong upstream of a task that is on is transitive_on
OnReachesUpstream(ts) ==
    \A t \in DOMAIN ts, d \in DOMAIN ts :
        (UpEdge(ts, d, t, {"Strong"}) /\ task_on(ts[d])) => ts[t].transitive_on

\* in the store ts every task that is transitive_on has a Strong downstream
\* task that is on
TransitiveOnIsOwed(ts) ==
    \A t \in DOMAIN ts :
        ts[t].transitive_on => \E d \in DOMAIN ts : UpEdge(ts, d, t, {"Strong"}) /\ task_on(ts[d])

\* an operation that does not panic, on a store that is and stays acyclic
SoundStep == ~poisoned' /\ ~HasCycle(tasks) /\ ~HasCycle(tasks')

\* C3: after every operation, if some task d that has t as a Strong upstream is
\* on, then transitive_on(t) is true: every operation keeps this (it holds of
\* the empty store).
C3_StrongUpstreamOfOnTaskIsTransitiveOn ==
    [][(SoundStep /\ OnReachesUpstream(tasks)) => OnReachesUpstream(tasks')]_vars

\* C4: after every operation (TaskDelete and TaskAdd with replacement of tasks
\* that are stopped but still on included), every task with transitive_on set
\* has a Strong downstream task in the store that is on: every operation keeps
\* this (it holds of the empty store).
C4_TransitiveOnHasStrongDownstreamOn ==
    [][(SoundStep /\ TransitiveOnIsOwed(tasks)) => TransitiveOnIsOwed(tasks')]_vars

\* C5: the upstream graph of the store is acyclic after every TaskAdd: a
\* TaskAdd on an acyclic store whose spec would close a cycle is refused and
\* inserts nothing.
C5_TaskAddKeepsStoreAcyclic ==
    [][(~HasCycle(tasks) /\ last'.op = "TaskAdd") =>
          /\ ~HasCycle(tasks')
          /\ last'.res = "Task cycle detected" => tasks' = tasks]_vars

\* C6: for every set of initial task specs whose upstream graph holds a cycle
\* the startup check reports 'Task cycle detected' before any task is turned
\* on, and for every acyclic set it reports no cycle.
C6_StartupReportsExactlyTheCycles ==
    phase # "boot" =>
        /\ HasCycle(tasks) <=> (phase = "failed" /\ last.res = "Task cycle detected")
        /\ phase = "failed" => \A t \in DOMAIN tasks : ~task_on(tasks[t])

\* C7: in a chain a <- b <- c of Strong edges TaskOn(a, true) makes c started
\* before b leaves Stopped and b started before a leaves Stopped, and all three
\* are eventually started (the children reach readiness).
C7_ChainStartsUpstreamFirst ==
    /\ [](ChainStrong => /\ ~Stopped("a") => Started("b")
                         /\ ~Stopped("b") => Started("c"))
    /\ (ChainStrong /\ tasks["a"].user_on) ~> AllStarted

\* C7 witness: a chain of three Long tasks all started with only a directly on
C7_ChainStarted ==
    /\ ChainStrong /\ AllStarted
    /\ \A i \in Ids : tasks[i].spec.kind = "Long" /\ (tasks[i].user_on <=> i = "a")

\* C8: in a chain a <- b <- c of Strong edges with all three started and only
\* a directly on, TaskOn(a, false) stops a first, then b, then c (no upstream
\* is stopped before its downstream), and eventually all three are stopped and
\* off, for Empty, Long and Short tasks.
C8_ChainStopsDownstreamFirst ==
    /\ [](ChainStrong => /\ Stopped("b") => Stopped("a")
                         /\ Stopped("c") => Stopped("b"))
    /\ (ChainStrong /\ AllOff) ~> AllStopped

\* C9: with a <- b Strong and both started and on, TaskOn(b, false) clears
\* b.direct_on, leaves b.transitive_on set, leaves b started and dispatches no
\* stop; a following TaskOn(a, false), which leaves both off and a on its way
\* to Stopped, leads to both being stopped and off.
C9_OffUpstreamWaitsForDownstream ==
    /\ [][( /\ UpEdge(tasks, "a", "b", {"Strong"})
            /\ Started("a") /\ Started("b") /\ On("a")
            /\ tasks["b"].user_on /\ ~tasks'["b"].user_on )
          => /\ tasks'["b"].transitive_on
             /\ task_started(tasks'["b"])
             /\ stopSent' = stopSent
             /\ \A t \in DOMAIN tasks : tasks'[t].state = tasks[t].state
                                        /\ tasks'[t].started = tasks[t].started]_vars
    /\ (UpEdge(tasks, "a", "b", {"Strong"}) /\ ~On("a") /\ ~On("b") /\ ~Stopped("a"))
           ~> (Stopped("a") /\ Stopped("b"))

\* the Empty task a has b as a Weak upstream
WeakPair == UpEdge(tasks, "a", "b", {"Weak"}) /\ tasks["a"].spec.kind = "Empty"

\* C10: if Empty task a has a Weak upstream w that is off, TaskOn(a, true)
\* turns a on, leaves both on flags of w false and leaves a not started; a is
\* started when, and only after, w is started through a later TaskOn(w, true).
C10_WeakUpstreamIsWaitedFor ==
    /\ [][( /\ WeakPair /\ ~On("b") /\ Stopped("b")
            /\ ~tasks["a"].user_on /\ tasks'["a"].user_on )
          => /\ ~tasks'["b"].user_on /\ ~tasks'["b"].transitive_on
             /\ ~tasks'["a"].started]_vars
    /\ [](WeakPair => (tasks["a"].started => Started("b")))
    /\ [][( /\ WeakPair /\ On("a") /\ ~Started("b")
            /\ "b" \in DOMAIN tasks' /\ task_started(tasks'["b"]) )
          => tasks'["a"].started]_vars
    /\ (WeakPair /\ On("a") /\ tasks["b"].user_on /\ UpEdge(tasks, "b", "c", {"Strong"}))
           ~> Started("a")

\* C10 witness: a was turned on while its weak upstream is off and stopped
C10_WaitingForWeakUpstream ==
    /\ WeakPair /\ tasks["a"].user_on /\ ~tasks["a"].started
    /\ ~On("b") /\ Stopped("b") /\ tasks["b"].spec.kind = "Long"

----------------------------------------------------------------------------
(* Short tasks with a started_action or a schedule (run.rs)                *)

\* what a Short spec may say about its successful exit: started_action and
\* whether the schedule is non-empty
ShortEndings == {<<"Absent", FALSE>>, <<"Absent", TRUE>>, <<"None", FALSE>>,
                 <<"TurnOff", FALSE>>, <<"Delete", FALSE>>}

\* the Short task a over one upstream b of kind kb; c is not in the store
ActionStore(e, kb, x) ==
    ("a" :> TaskSpec("Short", "b" :> x, FALSE, e[1], e[2])) @@ ("b" :> Plain(kb, EmptyMap))

ActionStores ==
    {ActionStore(e, kb, x) : e \in ShortEndings, kb \in {"Empty", "Long"}, x \in DepTypes}

ActionNext ==
    \/ \E specs \in ActionStores : Startup(specs, CanonOrd)
    \/ \E id \in {"a", "b"}, on \in BOOLEAN : TaskOn("run", id, on, CanonOrd)
    \/ \E id \in {"a", "b"} : DriverSteps("run", id)

ActionSpec == Init /\ [][ActionNext]_vars

\* the Short task id turns itself off when its child exits with success
TurnsOff(id) ==
    /\ id \in DOMAIN tasks /\ tasks[id].spec.kind = "Short"
    /\ ShortStartedAction(tasks[id].spec) = "TurnOff"

\* C11: after a directly-on Short task with started_action = TurnOff (or with
\* no started_action and a non-empty schedule) exits with a success code, the
\* task has direct_on = false, proc_state = Stopped and failure counter 0.
C11_TurnOffEndsStopped ==
    [][\A id \in Ids :
          ( /\ TurnsOff(id) /\ tasks[id].user_on /\ ~tasks[id].transitive_on
            /\ ShortSucceeded("run", id, CanonOrd) )
          => /\ ~tasks'[id].user_on
             /\ tasks'[id].state = "Stopped"
             /\ tasks'[id].failed_start_count = 0]_vars

----------------------------------------------------------------------------
(* The life of a store of two tasks under run.rs, with the record of the   *)
(* last step kept                                                          *)

\* the task a over one upstream b, of any two kinds; c is not in the store
PairStore(ka, kb, x) == ("a" :> Plain(ka, "b" :> x)) @@ ("b" :> Plain(kb, EmptyMap))

PairStores == {PairStore(ka, kb, x) : ka \in Kinds, kb \in Kinds, x \in DepTypes}

LifeNext ==
    \/ \E specs \in PairStores : Startup(specs, CanonOrd)
    \/ \E id \in {"a", "b"}, on \in BOOLEAN : TaskOn("run", id, on, CanonOrd)
    \/ \E id \in {"a", "b"} : DriverSteps("run", id)
    \/ Signal("run", CanonOrd)
    \/ Exit

LifeSpec == Boot(Booted) /\ [][LifeNext]_vars

\* the driver of id holds a child that was spawned and has not exited: it
\* waits for the started check or the exit, sleeps after Started, or is in
\* gentle_stop_proc
ChildLive(id) == driver[id] \in {"live", "run", "term"}

ProcBacked(id) == id \in DOMAIN tasks /\ tasks[id].spec.kind \in {"Long", "Short"}

\* C12: in every reachable state no Long or Short task has proc_state =
\* Stopped while its driver holds a child process that has not exited.
C12_NoChildWhileStopped ==
    \A id \in Ids : (ProcBacked(id) /\ tasks[id].state = "Stopped") => ~ChildLive(id)

\* C12 witness: a driver has just come back from gentle_stop_proc and
\* published Stopped
C12_StopPublished ==
    /\ last.op = "driver" /\ last.res = "stopped"
    /\ ProcBacked(last.id) /\ tasks[last.id].state = "Stopped" /\ driver[last.id] = "idle"

\* C13 as stated: a process-backed task's driver holds a live child if and
\* only if proc_state is Starting, Started or Stopping.
C13_ChildIffNotStopped ==
    \A id \in Ids : ProcBacked(id) => (ChildLive(id) <=> tasks[id].state # "Stopped")

\* C13, amended: a driver that holds a live child has its task in Starting,
\* Started or Stopping; a Long task in Started has a live child, a Short task
\* in Started has none (its child has exited with success).
C13_ChildImpliesNotStopped ==
    \A id \in Ids : ProcBacked(id) =>
        /\ ChildLive(id) => tasks[id].state \in {"Starting", "Started", "Stopping"}
        /\ tasks[id].state = "Started" => (ChildLive(id) <=> tasks[id].spec.kind = "Long")

\* C13 witness: a Long task in its restart delay after the child has exited,
\* and a Short task that is Started after its child's successful exit
C13_NoChildWhileStarting ==
    \E id \in Ids, other \in Ids :
        /\ ProcBacked(id) /\ tasks[id].spec.kind = "Long"
        /\ tasks[id].state = "Starting" /\ driver[id] = "delay"
        /\ last.op = "driver" /\ last.res = "exited"
        /\ ProcBacked(other) /\ tasks[other].spec.kind = "Short"
        /\ tasks[other].state = "Started" /\ driver[other] = "idle"

\* C14: an External task never becomes on (neither direct_on nor
\* transitive_on is ever set) and never leaves stopped, whatever requests are
\* made, and the start and stop paths never reach the External branch (no
\* unreachable! panic under the lock).
C14_ExternalStaysOff ==
    /\ \A id \in DOMAIN tasks :
           tasks[id].spec.kind = "External" =>
               /\ ~tasks[id].user_on /\ ~tasks[id].transitive_on
               /\ task_stopped(tasks[id]) /\ driver[id] = "idle"
    /\ ~poisoned

----------------------------------------------------------------------------
(* The store and its reverse index under TaskAdd, TaskDelete, TaskOn and   *)
(* Short tasks that delete themselves (run.rs)                             *)

\* the specs a client may add under id: Empty tasks, Short tasks with
\* started_action = Delete (all off by default, with at most one upstream) and
\* External
IndexCatalogue(id) ==
    {TaskSpec(kind, up, FALSE, IF kind = "Short" THEN "Delete" ELSE "Absent", FALSE) :
        kind \in {"Empty", "Short"}, up \in UpMaps(id)} \cup {ExternalSpec}

\* the steps of the driver of a Short task whose child runs until it is stopped
\* or exits with success
ShortSteps(v, id) ==
    \/ DriverSpawned(v, id, CanonOrd)
    \/ \E ord \in OrdersNow : ShortSucceeded(v, id, ord)
    \/ \E ord \in OrdersNow : DriverStopping(v, id, ord)
    \/ \E ord \in OrdersNow : DriverStopped(v, id, ord)

\* The requests and the driver steps are followed only while the store is
\* acyclic: push_stopped does not return from a walk over a cycle of stopped
\* tasks.
IndexNext ==
    \/ Startup(NoSpecs, CanonOrd)
    \/ /\ ~HasCycle(tasks)
       /\ \E id \in StoreIds, unique \in BOOLEAN, ord \in OrdersNow :
              \E spec \in IndexCatalogue(id) : TaskAdd(id, spec, unique, ord)
    \/ \E id \in StoreIds, ord \in OrdersNow : TaskDelete(id, ord)
    \/ /\ ~HasCycle(tasks)
       /\ \E id \in StoreIds, on \in BOOLEAN, ord \in OrdersNow : TaskOn("run", id, on, ord)
    \/ /\ ~HasCycle(tasks)
       /\ \E id \in StoreIds : ShortSteps("run", id)

IndexSpec == StoreInit /\ [][IndexNext]_vars

\* the reverse index of the store: downstream[u] holds (d, type) exactly for
\* the tasks d of the store whose upstream maps u to type
IndexOf(ts) ==
    LET us == UNION {DOMAIN upstream(ts[d]) : d \in DOMAIN ts}
    IN  [u \in us |-> LET ds == {d \in DOMAIN ts : u \in DOMAIN upstream(ts[d])}
                      IN  [d \in ds |-> upstream(ts[d])[u]]]

\* C15: after any sequence of task insertions, TaskAdd with replacement,
\* TaskDelete and driver self-deletions the reverse index agrees with the
\* forward edges, and the index holds no empty entry.
C15_IndexMirrorsUpstream ==
    /\ downstream = IndexOf(tasks)
    /\ \A u \in DOMAIN downstream : DOMAIN downstream[u] # {}

\* C15 witness: a Short task has deleted itself from its driver while another
\* task of the store shares its upstream
C15_SelfDeleted ==
    /\ last.op = "driver" /\ last.res = "stopped" /\ last.id \notin DOMAIN tasks
    /\ DOMAIN downstream # {}

----------------------------------------------------------------------------
(* Shutdown (run.rs): the store of two tasks with children that exit when  *)
(* they are stopped                                                        *)

\* the steps a driver takes on its own once it is spawned or told to stop
DrainSteps(v, id) ==
    \/ DriverSpawned(v, id, CanonOrd)
    \/ DriverStopping(v, id, CanonOrd)
    \/ DriverStopped(v, id, CanonOrd)
    \/ DelayStopped(v, id, CanonOrd)

\* ENABLED <<DrainSteps(v, id)>>_vars in closed form
DrainReady(id) ==
    /\ Running
    /\ \/ driver[id] \in {"spawn", "term"}
       \/ driver[id] \in {"live", "run", "delay"} /\ stopSent[id]

\* The runtime polls every driver and the children exit after Term or Kill:
\* weak fairness of the drivers' own steps (WF_vars written out with
\* DrainReady for the steps that run the planner) and of the return of main.
DrainFair ==
    /\ \A id \in Ids :
           /\ WF_vars(DriverSpawned("run", id, CanonOrd))
           /\ ([]<>(~DrainReady(id)) \/ []<><<DrainSteps("run", id)>>_vars)
    /\ WF_vars(Exit)

DrainSpec == Boot(Booted) /\ [][LifeNext]_vars /\ DrainFair

\* C16: after a termination signal every task is off, and eventually every
\* task is stopped and the supervisor loop has returned, whatever proc_state
\* each task was in when the signal arrived.  The second part is stated for
\* the stores without Short tasks, whose drivers the final wait of main covers.
C16_SignalDrainsEveryTask ==
    /\ [](phase \in {"draining", "exited"} => \A id \in DOMAIN tasks : ~task_on(tasks[id]))
    /\ (phase = "draining" /\ \A id \in DOMAIN tasks : tasks[id].spec.kind # "Short")
           ~> (phase = "exited" /\ \A id \in DOMAIN tasks : task_stopped(tasks[id]))

\* C17: on shutdown the supervisor does not return while any task driver, of
\* a Long task or of a Short task, is still running.
C17_ExitWaitsForEveryDriver ==
    phase = "exited" => \A id \in Ids : driver[id] = "idle"

\* C18: TaskDelete on a task that is not stopped answers "Task isn't stopped
\* yet" and leaves the store and the reverse index unchanged; on an absent id
\* it answers success and changes nothing; on a stopped task it removes
\* exactly that task.
C18_TaskDeleteOnlyStopped ==
    [][last'.op = "TaskDelete" =>
         LET id == last'.id
         IN  /\ ~poisoned'
             /\ IF id \notin DOMAIN tasks
                THEN last'.res = "Ok" /\ tasks' = tasks /\ downstream' = downstream
                ELSE IF ~task_stopped(tasks[id])
                THEN /\ last'.res = "Task isn't stopped yet"
                     /\ tasks' = tasks /\ downstream' = downstream
                ELSE /\ last'.res = "Ok"
                     /\ tasks' = MapDel(tasks, id)
                     /\ downstream' = IndexOf(tasks')
             /\ UNCHANGED <<driver, stopSent, phase>>]_vars

\* C18 witness: a TaskDelete was refused because the task is not stopped
C18_DeleteRefused ==
    /\ last.op = "TaskDelete" /\ last.res = "Task isn't stopped yet"
    /\ last.id \in DOMAIN tasks /\ ~task_stopped(tasks[last.id])

\* C19: a TaskAdd with unique set whose spec equals the spec of the task
\* stored under that id is a no-op: it answers success and changes nothing in
\* the store, whatever state (on or off, stopped, starting or started) the
\* task is in.
C19_EqualTaskAddIsNoOp ==
    [][\A id \in StoreIds, ord \in Orders :
          (id \in DOMAIN tasks /\ TaskAdd(id, tasks[id].spec, TRUE, ord))
          => /\ last'.res = "Ok"
             /\ tasks' = tasks /\ downstream' = downstream]_vars

\* C20: a TaskOn request naming an id that is not in the store is answered
\* with an error (not with success), leaves every task's state unchanged and
\* does not panic while holding the global lock.
C20_TaskOnAbsentIsRefused ==
    [][(last'.op = "TaskOn" /\ last'.id \notin DOMAIN tasks)
          => /\ ~poisoned'
             /\ last'.res \notin {"Ok", "panic"}
             /\ tasks' = tasks /\ downstream' = downstream]_vars

----------------------------------------------------------------------------
(* TaskWaitStarted and TaskWaitStopped (run.rs).  A waiter is the sender   *)
(* half of a one-shot channel pushed to the task's list; the request is    *)
(* suspended on the receiver half.  The lists are modelled by their        *)
(* lengths: a request is suspended for as long as its sender is in the     *)
(* list of a task of the store, and it is answered with the receive error  *)
(* when the TaskState_ that owns the list is dropped.                      *)

\* handle_ipc, Request::TaskWaitStarted up to the await
HandleTaskWaitStarted(s, id) ==
    IF id \notin DOMAIN s.tasks THEN Ret(s, "Unknown task")
    ELSE IF ~task_on(s.tasks[id]) THEN Ret(s, "Task is not on")
    ELSE IF task_started(s.tasks[id]) THEN Ret(s, "Ok")
    ELSE Ret([s EXCEPT !.tasks[id].started_waiters = @ + 1], "waiting")

TaskWaitStarted(id, ord) ==
    /\ phase = "running" /\ ~poisoned
    /\ id \in DOMAIN tasks => tasks[id].started_waiters < MaxWaiters
    /\ LET s == HandleTaskWaitStarted(Locked(ord), id)
       IN  Commit(s) /\ last' = Did("TaskWaitStarted", id, FALSE, s.ret)
    /\ UNCHANGED phase

\* handle_ipc, Request::TaskWaitStopped up to the await
HandleTaskWaitStopped(s, id) ==
    IF id \notin DOMAIN s.tasks THEN Ret(s, "Unknown task")
    ELSE IF task_on(s.tasks[id]) THEN Ret(s, "Task is not off")
    ELSE IF task_stopped(s.tasks[id]) THEN Ret(s, "Ok")
    ELSE Ret([s EXCEPT !.tasks[id].stopped_waiters = @ + 1], "waiting")

TaskWaitStopped(id, ord) ==
    /\ phase = "running" /\ ~poisoned
    /\ id \in DOMAIN tasks => tasks[id].stopped_waiters < MaxWaiters
    /\ LET s == HandleTaskWaitStopped(Locked(ord), id)
       IN  Commit(s) /\ last' = Did("TaskWaitStopped", id, FALSE, s.ret)
    /\ UNCHANGED phase

\* The store of two tasks with clients that wait, and children that spawn,
\* reach readiness and stop when asked
WaitNext ==
    \/ \E specs \in PairStores : Startup(specs, CanonOrd)
    \/ \E id \in {"a", "b"}, on \in BOOLEAN : TaskOn("run", id, on, CanonOrd)
    \/ \E id \in {"a", "b"} : TaskWaitStarted(id, CanonOrd)
    \/ \E id \in {"a", "b"} : TaskWaitStopped(id, CanonOrd)
    \/ \E id \in {"a", "b"} : TaskDelete(id, CanonOrd)
    \/ \E id \in {"a", "b"} : ReadySteps("run", id)

WaitSpec == Boot(Booted) /\ [][WaitNext]_vars /\ DriversFair("run")

\* a TaskWaitStarted (TaskWaitStopped) request is suspended on task id
WaitingStarted(id) == id \in DOMAIN tasks /\ tasks[id].started_waiters > 0

WaitingStopped(id) == id \in DOMAIN tasks /\ tasks[id].stopped_waiters > 0

\* C21: a TaskWaitStarted (TaskWaitStopped) request that attached a waiter to
\* an on, not-yet-started (off, not-yet-stopped) task is released by the step
\* in which the task becomes started (stopped) and by the step in which the
\* task's intent flips the other way, and it is eventually released.
C21_WaitersAreReleased ==
    /\ [][\A id \in Ids :
            /\ (WaitingStarted(id) /\ id \in DOMAIN tasks'
                    /\ (task_started(tasks'[id]) \/ ~task_on(tasks'[id])))
                => tasks'[id].started_waiters = 0
            /\ (WaitingStopped(id) /\ id \in DOMAIN tasks'
                    /\ (task_stopped(tasks'[id]) \/ task_on(tasks'[id])))
                => tasks'[id].stopped_waiters = 0]_vars
    /\ \A id \in Ids : (WaitingStarted(id) ~> ~WaitingStarted(id))
    /\ \A id \in Ids : (WaitingStopped(id) ~> ~WaitingStopped(id))

----------------------------------------------------------------------------
(* Short tasks with started_action = Delete (run.rs)                       *)

\* the Short task id has started_action = Delete
DeletesItself(id) ==
    /\ id \in DOMAIN tasks /\ tasks[id].spec.kind = "Short"
    /\ tasks[id].spec.started_action = "Delete"

\* C22: when a Short task with started_action = Delete completes a run with a
\* success exit code, its driver removes the task record from the store.
C22_DeleteActionRemovesTask ==
    [][\A id \in Ids :
          (DeletesItself(id) /\ ShortSucceeded("run", id, CanonOrd))
          => id \notin DOMAIN tasks']_vars

----------------------------------------------------------------------------
(* Failed starts (run.rs)                                                  *)

\* the answers of the driver steps that are a failed start: spawn_proc
\* failed, a Short child exited with a non-success code, a Long child exited
FailedStarts == {"spawn failed", "failed", "exited"}

\* C23: every failed start of a process-backed task (a failed spawn, a Short
\* task's non-success exit, a Long task's child exit) increments the task's
\* failed_start_count and leaves the task in Starting; the counter of a Long
\* task whose child keeps exiting therefore grows with every restart.
C23_FailedStartIsCounted ==
    [][(last'.op = "driver" /\ last'.res \in FailedStarts /\ last'.id \in DOMAIN tasks) =>
         /\ tasks'[last'.id].state = "Starting"
         /\ tasks'[last'.id].failed_start_count = tasks[last'.id].failed_start_count + 1]_vars

----------------------------------------------------------------------------
(* The state changes logged for a Short task (run.rs)                      *)

LogInit ==
    /\ phase = "boot"
    /\ tasks = NoTasks
    /\ downstream = NoDownstream
    /\ driver = [i \in Ids |-> "idle"]
    /\ stopSent = [i \in Ids |-> FALSE]
    /\ poisoned = FALSE
    /\ last = NoRecord
    /\ log = [on |-> TRUE, ev |-> [i \in Ids |-> <<>>]]

\* the stores of ActionStores with the log switched on
LogSpec == LogInit /\ [][ActionNext]_vars

\* the sequence q ends with the sequence tail
EndsWith(q, tail) ==
    Len(q) >= Len(tail) /\ SubSeq(q, Len(q) - Len(tail) + 1, Len(q)) = tail

FullCycle == <<"starting", "started", "stopping", "stopped">>

\* C24: the step in which a Short task with started_action = TurnOff exits
\* with success leaves the task's log ending with starting, started, stopping,
\* stopped, in that order and with no other event of the task in between; and
\* nothing is logged for a Short task while it has no driver, so the stream
\* ends there.
C24_TurnOffLogsFullCycle ==
    /\ [][\A id \in Ids :
            (TurnsOff(id) /\ ShortSucceeded("run", id, CanonOrd))
            => EndsWith(log'.ev[id], FullCycle)]_vars
    /\ [][\A id \in Ids :
            ( /\ id \in DOMAIN tasks /\ tasks[id].spec.kind = "Short"
              /\ driver[id] = "idle" /\ driver'[id] = "idle" )
            => log'.ev[id] = log.ev[id]]_vars

\* C24 witness: a Short TurnOff task whose driver has left after the success
\* exit of a retry, with the full cycle at the end of its log
C24_CycleLogged ==
    /\ TurnsOff("a") /\ driver["a"] = "idle" /\ tasks["a"].state # "Stopped"
    /\ tasks["a"].spec.started_action = "TurnOff"
    /\ log.ev["a"] = FullCycle

----------------------------------------------------------------------------
(* TaskShowUpstream and TaskShowDownstream (run.rs).  The answer is a tree *)
(* of TaskDependencyStatus: id -> status, each Present status holding the  *)
(* statuses of its own upstream (downstream) in `related`.                 *)

StatusPresent(task, dependency_type) ==
    [present |-> TRUE, on |-> task_on(task), started |-> task_started(task),
     dependency_type |-> dependency_type, related |-> EmptyMap]

StatusMissing(dependency_type) ==
    [present |-> FALSE, on |-> FALSE, started |-> FALSE,
     dependency_type |-> dependency_type, related |-> EmptyMap]

\* TaskShowUpstream pushing every upstream with the type of its own edge
UpNext_undemoted(s, task_id, dependency_type) ==
    LET up == upstream(s.tasks[task_id])
        ks == Keys(up, s.ord)
    IN  [i \in 1..Len(ks) |-> <<TRUE, ks[i], up[ks[i]]>>]

\* TaskShowUpstream: the frontier entries pushed for the upstream of a task
UpNext(s, task_id, dependency_type) ==
    LET up == upstream(s.tasks[task_id])
        ks == Keys(up, s.ord)
    IN  [i \in 1..Len(ks) |->
            <<TRUE, ks[i], IF dependency_type = "Strong" THEN up[ks[i]] ELSE "Weak">>]

\* TaskShowDownstream: the frontier entries pushed for the downstream of a task
DownNext(s, task_id, dependency_type) ==
    LET ks == DownKeys(s, task_id)
    IN  [i \in 1..Len(ks) |-> <<TRUE, ks[i], s.downstream[task_id][ks[i]]>>]

NoRoot == [found |-> FALSE, related |-> EmptyMap]

RECURSIVE show_loop(_, _, _, _, _)
\* the loop of both handlers; up tells which neighbours are pushed
show_loop(s, up, frontier, out_stack, root) ==
    IF frontier = <<>> THEN Ret(s, root)
    ELSE LET first == Last(frontier)[1]
             task_id == Last(frontier)[2]
             dependency_type == Last(frontier)[3]
             rest == Front(frontier)
         IN  IF first
             THEN LET present == task_id \in DOMAIN s.tasks
                      next == IF ~present THEN <<>>
                              ELSE IF up THEN UpNext(s, task_id, dependency_type)
                              ELSE DownNext(s, task_id, dependency_type)
                      push_status == IF present
                                     THEN StatusPresent(s.tasks[task_id], dependency_type)
                                     ELSE StatusMissing(dependency_type)
                  IN  show_loop(s, up,
                                (rest \o <<<<FALSE, task_id, dependency_type>>>>) \o next,
                                Append(out_stack, <<task_id, push_status>>), root)
             ELSE LET top_id == Last(out_stack)[1]
                      top == Last(out_stack)[2]
                      below == Front(out_stack)
                  IN  IF below # <<>>
                      THEN IF ~Last(below)[2].present THEN Panic(Ret(s, root))
                           ELSE show_loop(s, up, rest,
                                    [below EXCEPT ![Len(below)][2].related = MapPut(@, top_id, top)],
                                    root)
                      ELSE show_loop(s, up, rest, below,
                                     IF top.present THEN [found |-> TRUE, related |-> top.related]
                                     ELSE root)

\* handle_ipc, Request::TaskShowUpstream
HandleTaskShowUpstream(s, id) ==
    show_loop(s, TRUE, <<<<TRUE, id, "Strong">>>>, <<>>, NoRoot)

TaskShowUpstream(id, ord) ==
    /\ phase = "running" /\ ~poisoned
    /\ LET s == HandleTaskShowUpstream(Locked(ord), id)
       IN  Commit(s) /\ last' = Did("TaskShowUpstream", id, FALSE, s.ret)
    /\ UNCHANGED phase

\* handle_ipc, Request::TaskShowDownstream
HandleTaskShowDownstream(s, id) ==
    show_loop(s, FALSE, <<<<TRUE, id, "Strong">>>>, <<>>, NoRoot)

TaskShowDownstream(id, ord) ==
    /\ phase = "running" /\ ~poisoned
    /\ LET s == HandleTaskShowDownstream(Locked(ord), id)
       IN  Commit(s) /\ last' = Did("TaskShowDownstream", id, FALSE, s.ret)
    /\ UNCHANGED phase

\* every upstream map over the other ids
EdgeMaps(id) == UNION {[us -> DepTypes] : us \in SUBSET (Ids \ {id})}

\* the acyclic stores of Empty tasks over any non-empty subset of the ids;
\* an upstream id outside the subset is a dead link
ShowStores ==
    {specs \in UNION {[D -> UNION {{Plain("Empty", up) : up \in EdgeMaps(i)} : i \in Ids}] :
                         D \in (SUBSET Ids) \ {{}}} :
        /\ \A i \in DOMAIN specs : specs[i].upstream \in EdgeMaps(i)
        /\ ~HasCycle([i \in DOMAIN specs |-> NewTaskState(specs[i])])}

ShowNext ==
    \/ \E specs \in ShowStores : Startup(specs, CanonOrd)
    \/ \E id \in Ids, ord \in Orders : TaskShowUpstream(id, ord)
    \/ \E id \in Ids, ord \in Orders : TaskShowDownstream(id, ord)

ShowSpec == StoreInit /\ [][ShowNext]_vars

RECURSIVE InTree(_, _), NodeAt(_, _)
\* the path p of ids leads to a node of the tree `related`
InTree(related, p) ==
    /\ p[1] \in DOMAIN related
    /\ Len(p) = 1 \/ InTree(related[p[1]].related, Tail(p))

NodeAt(related, p) ==
    IF Len(p) = 1 THEN related[p[1]] ELSE NodeAt(related[p[1]].related, Tail(p))

\* the paths of at most as many edges as there are ids
Paths == UNION {[1..n -> Ids] : n \in 1..Cardinality(Ids)}

From(root, p, i) == IF i = 1 THEN root ELSE p[i - 1]

\* from root the path p follows upstream edges of the store
UpPath(root, p) ==
    \A i \in 1..Len(p) :
        From(root, p, i) \in DOMAIN tasks /\ p[i] \in DOMAIN upstream(tasks[From(root, p, i)])

UpPathWeak(root, p) ==
    \E i \in 1..Len(p) : upstream(tasks[From(root, p, i)])[p[i]] = "Weak"

\* C25: the answer of TaskShowUpstream holds exactly the upstream paths from
\* the queried task; a node is reported Weak if and only if at least one edge
\* on its path is Weak, and it is reported Missing (under the same rule) if
\* and only if its id is not in the store.
C25_ShowUpstreamDemotesAfterWeak ==
    (last.op = "TaskShowUpstream" /\ last.id \in DOMAIN tasks) =>
        /\ last.res.found /\ ~poisoned
        /\ \A p \in Paths :
               /\ InTree(last.res.related, p) <=> UpPath(last.id, p)
               /\ InTree(last.res.related, p) =>
                      LET node == NodeAt(last.res.related, p)
                      IN  /\ node.dependency_type = "Weak" <=> UpPathWeak(last.id, p)
                          /\ node.present <=> p[Len(p)] \in DOMAIN tasks

\* C25 witness: an answer with a Strong edge below a Weak one, a Weak edge
\* below a Strong one and a dead link
C25_ShownMixedPaths ==
    /\ last.op = "TaskShowUpstream" /\ last.id = "a" /\ DOMAIN tasks = {"a", "b"}
    /\ upstream(tasks["a"]) = ("b" :> "Weak") @@ ("c" :> "Strong")
    /\ upstream(tasks["b"]) = ("c" :> "Strong")
    /\ last.res.related["b"].related["c"].dependency_type = "Weak"
    /\ last.res.related["c"].dependency_type = "Strong"
    /\ ~last.res.related["c"].present

\* from root the path p follows the edges of the reverse index
DownPath(root, p) ==
    \A i \in 1..Len(p) :
        /\ From(root, p, i) \in DOMAIN tasks /\ From(root, p, i) \in DOMAIN downstream
        /\ p[i] \in DOMAIN downstream[From(root, p, i)]

DownPathWeak(root, p) ==
    \E i \in 1..Len(p) : downstream[From(root, p, i)][p[i]] = "Weak"

\* C26: the answer of TaskShowDownstream holds exactly the downstream paths
\* from the queried task, and a node is reported Weak if and only if at least
\* one edge on its path is Weak.
C26_ShowDownstreamDemotesAfterWeak ==
    (last.op = "TaskShowDownstream" /\ last.id \in DOMAIN tasks) =>
        /\ last.res.found /\ ~poisoned
        /\ \A p \in Paths :
               /\ InTree(last.res.related, p) <=> DownPath(last.id, p)
               /\ InTree(last.res.related, p) =>
                      (NodeAt(last.res.related, p).dependency_type = "Weak"
                           <=> DownPathWeak(last.id, p))

----------------------------------------------------------------------------
(* The environment of a spawned child (run.rs: main "Prep env" and         *)
(* spawn_proc).  An environment is a map from keys to values; an           *)
(* interface::task::Environment is [clear, add] with clear an Option of a  *)
(* map key -> keep.                                                        *)

EnvKeys == {"K1", "K2"}

\* the maps from some of the keys to the values of vals
EnvMaps(vals) == UNION {[ks -> vals] : ks \in SUBSET EnvKeys}

\* Option<HashMap<String, bool>>
ClearMasks == {[set |-> FALSE, keep |-> [k \in {} |-> TRUE]]}
                  \cup {[set |-> TRUE, keep |-> m] : m \in EnvMaps(BOOLEAN)}

\* the environment settings of the config ("cfg" values) and of a task spec
\* ("task" values)
Environments(val) == {[clear |-> c, add |-> a] : c \in ClearMasks, a \in EnvMaps({val})}

\* HashMap::extend / Command::env over a map
Overlay(base, add) ==
    [k \in DOMAIN base \cup DOMAIN add |-> IF k \in DOMAIN add THEN add[k] ELSE base[k]]

\* the keys marked keep, with their values from env where it has them
Kept(keep, env) ==
    [k \in {k \in DOMAIN keep : keep[k] /\ k \in DOMAIN env} |-> env[k]]

\* main, "Prep env": the base environment from the environment of the demon
\* process and the config
prep_env(os, config) ==
    Overlay(IF config.clear.set THEN Kept(config.clear.keep, os) ELSE os, config.add)

\* spawn_proc, "Env vars": what the child gets.  A Command that is not
\* env_clear()ed inherits the environment of the demon process.
spawn_proc_env(os, base_env, spec) ==
    Overlay(IF spec.clear.set THEN Kept(spec.clear.keep, base_env) ELSE os, spec.add)

\* the inputs of one spawn: the environment of the demon process, the config
\* and the task spec
EnvInit ==
    /\ phase = "boot"
    /\ tasks = NoTasks
    /\ downstream = NoDownstream
    /\ driver = [i \in Ids |-> "idle"]
    /\ stopSent = [i \in Ids |-> FALSE]
    /\ poisoned = FALSE
    /\ log = NoLog
    /\ \E os \in EnvMaps({"os"}), config \in Environments("cfg"), spec \in Environments("task") :
           last = [op |-> "env", id |-> "-",
                   arg |-> [os |-> os, config |-> config, spec |-> spec], res |-> "-"]

\* the child is spawned
SpawnProc ==
    /\ last.op = "env"
    /\ last' = Did("spawn_proc", "-", last.arg,
                   spawn_proc_env(last.arg.os, prep_env(last.arg.os, last.arg.config),
                                  last.arg.spec))
    /\ UNCHANGED <<phase, tasks, downstream, driver, stopSent, poisoned, log>>

EnvNext == SpawnProc

EnvSpec == EnvInit /\ [][EnvNext]_vars

\* C27: the environment given to a spawned child is, when
\* spec.environment.clear is set, only the keys marked keep with their values
\* from the filtered base environment, and otherwise the whole filtered base
\* environment (config clear mask applied, then config add overlay); in both
\* cases overlaid with spec.environment.add.
C27_ChildEnvironment ==
    last.op = "spawn_proc" =>
        LET base == prep_env(last.arg.os, last.arg.config)
            spec == last.arg.spec
        IN  last.res = Overlay(IF spec.clear.set THEN Kept(spec.clear.keep, base) ELSE base,
                               spec.add)

----------------------------------------------------------------------------
(* The planner of task_plan.rs over chains, fan-in, fan-out and dead links *)

\* a over the two upstream b and c
FanInStore(ka, kb, kc, x, y) ==
    [i \in Ids |-> CASE i = "a" -> Plain(ka, ("b" :> x) @@ ("c" :> y))
                     [] i = "b" -> Plain(kb, EmptyMap)
                     [] OTHER -> Plain(kc, EmptyMap)]

\* a and b over the one upstream c
FanOutStore(ka, kb, kc, x, y) ==
    [i \in Ids |-> CASE i = "a" -> Plain(ka, "c" :> x)
                     [] i = "b" -> Plain(kb, "c" :> y)
                     [] OTHER -> Plain(kc, EmptyMap)]

\* a over b, and b over c which is not in the store
DeadLinkStore(ka, kb, x) ==
    ("a" :> Plain(ka, "b" :> x)) @@ ("b" :> Plain(kb, "c" :> "Weak"))

\* chains of one kind, fan-in and fan-out with one Long and one Empty task at
\* the two ends, dead links; every edge Strong or Weak
GateStores ==
    ChainStores
        \cup {FanInStore(k, "Long", "Empty", x, y) : k \in Kinds, x \in DepTypes, y \in DepTypes}
        \cup {FanOutStore("Long", "Empty", k, x, y) : k \in Kinds, x \in DepTypes, y \in DepTypes}
        \cup {DeadLinkStore(k, k, x) : k \in Kinds, x \in DepTypes}

GateNext ==
    \/ \E specs \in GateStores : Startup(specs, CanonOrd)
    \/ \E id \in Ids, on \in BOOLEAN, ord \in OrdersNow : TaskOn("plan", id, on, ord)
    \/ \E id \in Ids : DriverSteps("plan", id)

GateSpec == Init /\ [][GateNext]_vars

\* the same stores under the planner of run.rs
RunGateNext ==
    \/ \E specs \in GateStores : Startup(specs, CanonOrd)
    \/ \E id \in Ids, on \in BOOLEAN, ord \in OrdersNow : TaskOn("run", id, on, ord)
    \/ \E id \in Ids : DriverSteps("run", id)

RunGateSpec == Init /\ [][RunGateNext]_vars

\* the step starts task t: an Empty task becomes started, a Long or Short
\* task enters Starting with its driver spawned
Starts(t) ==
    /\ t \in DOMAIN tasks /\ t \in DOMAIN tasks'
    /\ IF tasks[t].spec.kind = "Empty" THEN ~tasks[t].started /\ tasks'[t].started
       ELSE /\ tasks[t].state # "Starting" /\ tasks'[t].state = "Starting"
            /\ driver'[t] = "spawn"

\* C28: the planner never starts a task (inline for Empty, through the start
\* set and its driver for Long and Short) while any of its upstream tasks,
\* Strong or Weak, is not started or is absent from the store; every task it
\* starts is on and, if process-backed, was in proc_state Stopped.
C28_StartOnlyWithUpstreamStarted ==
    [][\A t \in Ids :
          Starts(t) => /\ AllUpStarted(tasks', t)
                       /\ task_on(tasks'[t])
                       /\ tasks[t].spec.kind # "Empty" => tasks[t].state = "Stopped"]_vars

\* C28 witness: a is on and waits, not started, for its second upstream while
\* the first one is started
C28_WaitingForSecondUpstream ==
    /\ On("a") /\ Stopped("a") /\ DOMAIN upstream(tasks["a"]) = {"b", "c"}
    /\ Started("c") /\ ~Started("b") /\ tasks["b"].state = "Starting"

\* the step stops task t: an Empty task becomes not started, a completed Short
\* task is set to Stopped, the stop sender of a Long or Short task is used
Stops(t) ==
    /\ t \in DOMAIN tasks /\ t \in DOMAIN tasks'
    /\ IF tasks[t].spec.kind = "Empty" THEN tasks[t].started /\ ~tasks'[t].started
       ELSE \/ tasks[t].stop /\ ~tasks'[t].stop
            \/ /\ tasks[t].spec.kind = "Short"
               /\ tasks[t].state = "Started" /\ tasks'[t].state = "Stopped"

\* C29: the planner never stops a task (inline for Empty, directly for a
\* completed Short, or by dispatching a stop request for Long and Short) while
\* any of its downstream tasks, Strong or Weak, is not stopped.
C29_StopOnlyWithDownstreamStopped ==
    [][\A t \in Ids :
          Stops(t) => all_downstream_tasks_stopped([tasks |-> tasks', downstream |-> downstream'], t)]_vars

\* C29 witness: the Long task c was turned off and is still started, its stop
\* not dispatched, while its downstream a is on its way to Stopped
C29_WaitingForDownstream ==
    /\ "a" \in DOMAIN tasks /\ "c" \in DOMAIN upstream(tasks["a"])
    /\ tasks["a"].state = "Stopping"
    /\ ~On("c") /\ Started("c") /\ tasks["c"].spec.kind = "Long" /\ tasks["c"].stop

RECURSIVE DownClosure(_)
\* the ids reachable from the set over the reverse index, the set included
DownClosure(set) ==
    LET next == set \cup UNION {DOMAIN downstream[x] : x \in set \cap DOMAIN downstream}
    IN  IF next = set THEN set ELSE DownClosure(next)

\* the tasks downstream of t at any depth
AllDownstream(t) == DownClosure({t}) \ {t}

\* the driver of t publishes Stopping on a stop request, or moves through
\* stopping when its child has exited
EntersStopping(t) == driver[t] \in {"live", "run"} /\ driver'[t] \in {"term", "delay"}

\* C30: when a task enters Stopping (stop request or child exit), after the
\* stopping event every task reachable downstream, at any depth, is stopped
\* or has a stop dispatched.
C30_StoppingStopsAllDownstream ==
    [][\A t \in Ids :
          EntersStopping(t) =>
              \A d \in AllDownstream(t) :
                  /\ d \in DOMAIN tasks'
                  /\ \/ task_stopped(tasks'[d])
                     \/ tasks'[d].spec.kind \in {"Long", "Short"} /\ ~tasks'[d].stop]_vars

----------------------------------------------------------------------------
(* Stops and starts that wait and are resumed                              *)

\* the store after the step, as the planner reads it
After == [tasks |-> tasks', downstream |-> downstream']

\* a stop of u is under way: its stop sender was used, or its driver is in
\* gentle_stop_proc
StopDispatched(u) ==
    /\ u \in DOMAIN tasks /\ tasks[u].spec.kind \in {"Long", "Short"}
    /\ ~tasks[u].stop /\ (stopSent[u] \/ driver[u] = "term" \/ tasks[u].state = "Stopping")

\* u is off, not stopped, and every downstream of u is stopped
StopOwed(u) ==
    /\ u \in DOMAIN tasks /\ ~task_on(tasks[u]) /\ ~task_stopped(tasks[u])
    /\ all_downstream_tasks_stopped([tasks |-> tasks, downstream |-> downstream], u)

\* C31: whenever a task becomes stopped (driver publication, an Empty task's
\* inline stop, a completed Short task's direct Started -> Stopped transition)
\* every upstream task that is off and whose downstream are now all stopped
\* is stopped or has a stop dispatched, and eventually reaches stopped.
C31_StopIsResumed ==
    /\ [][\A t \in DOMAIN tasks, u \in DOMAIN tasks :
             ( /\ t \in DOMAIN tasks' /\ u \in DOMAIN tasks'
               /\ ~task_stopped(tasks[t]) /\ task_stopped(tasks'[t])
               /\ u \in DOMAIN upstream(tasks'[t])
               /\ ~task_on(tasks'[u])
               /\ all_downstream_tasks_stopped(After, u) )
             => (task_stopped(tasks'[u]) \/ StopDispatched(u)')]_vars
    /\ \A u \in Ids : (StopOwed(u) ~> (Stopped(u) \/ On(u)))

\* C32: a task t that is off with a Weak downstream that is running eventually
\* becomes stopped after TaskOn(t, false): the weak downstream is stopped
\* first (t does not become stopped before it) and, once the stop of the weak
\* downstream is under way, t reaches stopped (unless it is turned on again).
C32_WeakDownstreamStopResumes ==
    /\ [][\A t \in Ids, d \in Ids :
             ( /\ UpEdge(tasks', d, t, {"Weak"}) /\ t \in DOMAIN tasks
               /\ ~task_stopped(tasks[t]) /\ task_stopped(tasks'[t]) )
             => task_stopped(tasks'[d])]_vars
    /\ \A t \in Ids, d \in Ids :
           ( /\ UpEdge(tasks, d, t, {"Weak"})
             /\ ~On(t) /\ ~Stopped(t) /\ tasks[d].state = "Stopping" )
               ~> (Stopped(t) \/ On(t))

----------------------------------------------------------------------------
(* A client that toggles tasks at any time, over the stores of two tasks,  *)
(* with children that spawn, reach readiness and stop when asked           *)

ToggleNext(v) ==
    \/ \E specs \in PairStores : Startup(specs, CanonOrd)
    \/ \E id \in {"a", "b"}, on \in BOOLEAN : TaskOn(v, id, on, CanonOrd)
    \/ \E id \in {"a", "b"} : ReadySteps(v, id)

PlanToggleNext == ToggleNext("plan")

PlanToggle == Init /\ [][PlanToggleNext]_vars /\ DriversFair("plan")

RunToggleNext == ToggleNext("run")

RunToggle == Init /\ [][RunToggleNext]_vars /\ DriversFair("run")

\* every upstream of t is started
UpStarted(t) == t \in DOMAIN tasks /\ AllUpStarted(tasks, t)

\* C33: if TaskOn(t, false) is followed by TaskOn(t, true) while t's driver is
\* still in Stopping, then t (being on, with all upstream started) eventually
\* becomes started again after it reaches Stopped.
C33_ToggleRestartsTask ==
    \A t \in Ids :
        (ProcBacked(t) /\ On(t) /\ tasks[t].state = "Stopping" /\ UpStarted(t))
            ~> (Started(t) \/ ~On(t) \/ ~UpStarted(t))

\* t is in Starting with its child spawned and its readiness not yet observed
StartingLive(t) == ProcBacked(t) /\ tasks[t].state = "Starting" /\ driver[t] = "live"

\* C34: TaskOn(t, false) issued while a process-backed task t is in Starting
\* (child spawned, readiness not yet observed) signals t's driver through the
\* stop channel, t does not go on to Started while off, and t eventually
\* reaches Stopped.
C34_StopWhileStarting ==
    /\ [][\A t \in Ids :
             ( /\ StartingLive(t) /\ On(t) /\ t \in DOMAIN tasks' /\ ~task_on(tasks'[t])
               /\ all_downstream_tasks_stopped(After, t) )
             => stopSent'[t]]_vars
    /\ [][\A t \in Ids :
             (StartingLive(t) /\ ~On(t) /\ t \in DOMAIN tasks' /\ ~task_on(tasks'[t]))
             => tasks'[t].state # "Started"]_vars
    /\ \A t \in Ids : ((StartingLive(t) /\ ~On(t)) ~> (Stopped(t) \/ On(t)))

----------------------------------------------------------------------------
(* Short tasks with a started_action or a schedule upstream of another     *)
(* task (run.rs)                                                           *)

\* the task a of kind ka over the Short task b; c is not in the store
UpActionStore(e, ka, x) ==
    ("a" :> Plain(ka, "b" :> x)) @@ ("b" :> TaskSpec("Short", EmptyMap, FALSE, e[1], e[2]))

UpActionStores == {UpActionStore(e, ka, x) : e \in ShortEndings, ka \in Kinds, x \in DepTypes}

UpActionNext ==
    \/ \E specs \in UpActionStores \cup PairStores : Startup(specs, CanonOrd)
    \/ \E id \in {"a", "b"}, on \in BOOLEAN : TaskOn("run", id, on, CanonOrd)
    \/ \E id \in {"a", "b"} : DriverSteps("run", id)

UpActionSpec == Init /\ [][UpActionNext]_vars

\* C35: whenever a task publishes Started (an Empty task's inline start, a
\* Long task's readiness, a Short task's success exit under any
\* started_action) and is started when the lock is released, every downstream
\* task that is on and whose upstream are all started is started or has its
\* start dispatched (Starting) within the same step.
C35_StartedStartsDownstream ==
    [][\A t \in DOMAIN tasks, d \in DOMAIN tasks :
          ( /\ t \in DOMAIN tasks' /\ d \in DOMAIN tasks'
            /\ ~task_started(tasks[t]) /\ task_started(tasks'[t])
            /\ t \in DOMAIN upstream(tasks'[d])
            /\ task_on(tasks'[d]) /\ AllUpStarted(tasks', d) )
          => Begun(tasks', d)]_vars

\* C36: when a stop request reaches a Long or Short driver that sleeps in its
\* restart delay (after a child exit or a failed spawn), the driver exits and
\* the task's proc_state becomes Stopped, so that the task can be started
\* again later.
C36_StopDuringDelayEndsStopped ==
    [][\A id \in Ids :
          (driver[id] = "delay" /\ driver'[id] = "idle")
          => (id \in DOMAIN tasks' /\ tasks'[id].state = "Stopped")]_vars

\* the driver of t is in gentle_stop_proc (the Term -> Kill window): the stop
\* channel of t was used
InTermWindow(t) == ProcBacked(t) /\ driver[t] = "term" /\ ~tasks[t].stop

\* C37: a second stop request for a process-backed task whose stop channel
\* was already used (the task is in Stopping, in the Term -> Kill window)
\* changes nothing: no step but the driver's own return from gentle_stop_proc
\* sends a signal or changes proc_state, pid or the failure counter.
C37_SecondStopIsNoOp ==
    [][\A t \in Ids :
          (InTermWindow(t) /\ driver'[t] = "term")
          => /\ t \in DOMAIN tasks'
             /\ tasks'[t].state = "Stopping" /\ tasks[t].state = "Stopping"
             /\ tasks'[t].pid = tasks[t].pid
             /\ tasks'[t].failed_start_count = tasks[t].failed_start_count
             /\ tasks'[t].stop = tasks[t].stop
             /\ stopSent'[t] = stopSent[t]]_vars

\* C37 witness: a TaskOn(_, false) request, on the task or on a Strong
\* downstream of it, was handled while the task's driver was in the window
C37_StopRequestedInWindow ==
    \E t \in Ids :
        /\ InTermWindow(t) /\ ~On(t)
        /\ last.op = "TaskOn" /\ last.arg = FALSE
        /\ (last.id = t \/ UpEdge(tasks, last.id, t, {"Strong"}))

\* the planner event that belongs to a proc_state, by the line it logs
EventOf(state) ==
    CASE state = "Starting" -> "starting"
      [] state = "Started" -> "started"
      [] state = "Stopping" -> "stopping"
      [] OTHER -> "stopped"

\* C38: every change of a task's proc_state (to Starting, Started, Stopping or
\* Stopped) is followed within the same lock acquisition by its planner event
\* (on_starting, on_started, on_stopping, on_stopped, each of which logs the
\* change first), so that no other request or driver can observe the new
\* state before its event has run.
C38_StateChangeRunsEvent ==
    [][\A t \in DOMAIN tasks :
          (ProcBacked(t) /\ t \in DOMAIN tasks' /\ tasks'[t].state # tasks[t].state)
          => /\ log'.ev[t] # log.ev[t]
             /\ Last(log'.ev[t]) = EventOf(tasks'[t].state)]_vars

RECURSIVE StrongUpClosure(_)
\* the ids reachable from the set through Strong upstream edges of the store,
\* the set included
StrongUpClosure(set) ==
    LET next == set \cup {u \in Ids : \E x \in set : UpEdge(tasks, x, u, {"Strong"})}
    IN  IF next = set THEN set ELSE StrongUpClosure(next)

\* the tasks reachable from t through Strong upstream edges
StrongAbove(t) == StrongUpClosure({t}) \ {t}

\* the step changes an on-flag of some task, or the set of tasks
OnFlagsChange ==
    \/ DOMAIN tasks' # DOMAIN tasks
    \/ \E x \in DOMAIN tasks : \/ tasks'[x].user_on # tasks[x].user_on
                               \/ tasks'[x].transitive_on # tasks[x].transitive_on

\* C39: TaskOn(t, true) and TaskOn(t, false) change direct_on of t only, and
\* transitive_on only of tasks reachable from t through Strong upstream edges;
\* no downstream task and no task reachable only through a Weak edge has its
\* direct_on or transitive_on changed.  (A step that changes no on-flag at all
\* meets this without a look at the request.)
C39_TaskOnChangesStrongUpstreamOnly ==
    [][\A t \in Ids, on \in BOOLEAN, ord \in OrdersNow :
          (OnFlagsChange /\ TaskOn("plan", t, on, ord))
          => /\ DOMAIN tasks' = DOMAIN tasks
             /\ \A x \in DOMAIN tasks :
                    /\ x # t => tasks'[x].user_on = tasks[x].user_on
                    /\ x \notin StrongAbove(t) =>
                           tasks'[x].transitive_on = tasks[x].transitive_on]_vars

\* C39 witness: a was turned on over a Weak edge to b, which has the Strong
\* upstream c, and b and c are off
C39_OnOverWeakEdge ==
    /\ "a" \in DOMAIN tasks /\ tasks["a"].user_on
    /\ UpEdge(tasks, "a", "b", {"Weak"}) /\ UpEdge(tasks, "b", "c", {"Strong"})
    /\ ~On("b") /\ ~On("c")

\* the changes of proc_state of a task of the given kind that the lifecycle
\* allows
Lifecycle(kind) ==
    {<<"Stopped", "Starting">>, <<"Starting", "Started">>, <<"Started", "Stopping">>,
     <<"Stopping", "Stopped">>, <<"Starting", "Stopping">>, <<"Started", "Starting">>}
        \cup (IF kind = "Short" THEN {<<"Started", "Stopped">>} ELSE {})

\* C40: a process-backed task's proc_state changes only along Stopped ->
\* Starting -> Started -> Stopping -> Stopped, plus Starting -> Stopping,
\* Started -> Starting and a completed Short task's Started -> Stopped; under
\* every interleaving of a stop request with the driver's readiness check and
\* child exit no state goes from Stopping back to Started or Starting, and no
\* task is left in Starting or Stopping with no driver alive.
C40_ProcStateLifecycle ==
    [][\A t \in DOMAIN tasks :
          (ProcBacked(t) /\ t \in DOMAIN tasks')
          => /\ tasks'[t].state # tasks[t].state =>
                    <<tasks[t].state, tasks'[t].state>> \in Lifecycle(tasks[t].spec.kind)
             /\ tasks'[t].state \in {"Starting", "Stopping"} => driver'[t] # "idle"]_vars

====
